---- MODULE Spec2Model ----
(***************************************************************************)
(* myousync: the reconciliation pipeline.                                  *)
(*                                                                         *)
(* The status table, the cached extractor metadata, the file trees, the    *)
(* remote_id -> path cache, the update bus and the tagger trigger are the  *)
(* shared state.  The tagger loop and the playlist sync loop are polled by *)
(* the one task of main (tokio::select!), so they interleave with each     *)
(* other only where they await.  Operator requests are served by tasks the *)
(* HTTP server spawns on the multi-threaded runtime: they interleave with  *)
(* the loops at every access to the store.                                 *)
(***************************************************************************)
EXTENDS Integers, Sequences, FiniteSets, TLC

\* ------------------------------------------------------------- bounds
\* The wall clock takes the values 0..MaxClock (seconds).
MaxClock == 1
\* Operator requests served plus file operations (tag write, mkdir, rename,
\* copy, remove) that fail, in one run.
MaxEvents == 1
\* Items in one page of a playlist response (the request's maxResults).
MaxResults == 1
\* Instant::now() takes the values 0..MaxNow one by one (units of 5 ms), and
\* beyond them the instants at which a sleeping resolver wakes up.
MaxNow == 8
\* The Duration a Limiter is made with (Limiter::new(time)), in units of 5 ms.
wait_time == 5

\* the updates the media server accepts
MaxUpdates == 1

\* the messages NOTIFY_MUSIC_UPDATE keeps for a receiver that is behind: 100 in
\* the program, scaled down
BusBuffer == 2
\* the messages sent on NOTIFY_MUSIC_UPDATE
MaxSent == 4

\* the comments of one tag
MaxComments == 2

\* the ticks of an interval that are due and not yet taken
MaxDue == 2
\* the awaits of a loop body
BodyAwaits == 2
\* the iterations of a loop
MaxRuns == 3

\* the times the process is killed during a migration
MaxCrashes == 5

\* the calls of analyze_brainz and the answers 503 of the service to one call
MaxQueries == 2
MaxUnavailable == 1

\* the expires_in and interval of a device code, the seconds an answer takes,
\* the polls of one call
MaxExpires == 3
MaxInterval == 2
MaxTook == 1
MaxPolls == 3

\* ------------------------------------------------------------- values
Videos == {"v1", "v2"}
Metas == {"m1", "m2"}
None == "None"
NoTime == 0 - 1
NoPath == <<>>

\* The items the provider returns for a playlist: v1 is in both playlists.
RemotePlaylist(p) == IF p = "p1" THEN <<"v1">> ELSE <<"v1", "v2">>

\* BrainzMetadata {title, artist, album}: both results share the artist.
MetaArtist(m) == "a1"
MetaAlbum(m) == IF m = "m1" THEN "b1" ELSE "b2"
MetaTitle(m) == "t1"

NoFile == [ex |-> FALSE, yid |-> None, meta |-> None]
RawFile == [ex |-> TRUE, yid |-> None, meta |-> None]
Tagged(v, m) == [ex |-> TRUE, yid |-> v, meta |-> m]

VideoStatus_new(v) ==
    [video_id |-> v, fetch_status |-> "NotFetched", fetch_time |-> NoTime,
     last_update |-> NoTime, last_query |-> None, last_result |-> None,
     last_error |-> None, override_query |-> None, override_result |-> None,
     jelly_id |-> None]

is_downloaded(st) ==
    /\ st.fetch_status # "NotFetched"
    /\ st.fetch_status # "FetchError"
    /\ st.fetch_status # "Disabled"

\* ------------------------------------------------------------- state
VARIABLES
    clock,      \* SystemTime::now(), in seconds
    status,     \* table status: video_id -> row
    ytdata,     \* table ytdata: the videos with cached extractor metadata
    files,      \* path -> file content (existence and embedded tags)
    dirs,       \* the directories that exist
    file_cache, \* FileCache.lookup: video_id -> path
    notes,      \* NOTIFY_MUSIC_UPDATE: the newest message on the bus
    trig,       \* TRIGGER_MUSIC_TAG: wake-ups pending for the tagger loop
    tag,        \* the tagger loop: position and locals of sync_playlist_item
    sync,       \* the playlist sync loop: position and locals of sync_all
    op,         \* the operator request being served
    playlist_config, \* table playlist_config: the configured playlists
    events,     \* operator requests served and file operations failed so far
    playlists,  \* tables playlists and playlist_items: playlist_id -> playlist
    remote,     \* the provider's playlists: playlist_id -> etag, count and items
    fetch,      \* a get_playlist call followed page by page
    now,        \* Instant::now(), in units of 5 ms
    times,      \* Limiter.times: next_allowed_time and claimed_next_time
    callers,    \* the tasks that call the limiter: position and wake-up time
    log,        \* the limiter's calls so far: arrivals, returns, last back-off
    paths,      \* MsConfig.paths: the music, temp and migrate directories
    mirror,     \* the mirror loop: position and locals of jellyfin::sync_all
    server,     \* the media server: the items it lists and the update it holds
    users,      \* table users: username -> stored password hash
    reply,      \* the response of the last sign_in request
    bus,        \* NOTIFY_MUSIC_UPDATE: every message sent so far, oldest first
    socket,     \* a web socket client: position and locals of ws_handler
    media,      \* an audio file and the multitag::Tag read from it
    runner,     \* trigger_loop: its position, timer and trigger receiver
    db,         \* the database file during DbState::migrate: version, schema, position
    brainz,     \* a call of analyze_brainz: its position, searches and result
    oauth       \* a call of get_auth: its position, the time and the stored credentials

\* the limiter and its callers
limiterVars == <<now, times, callers, log>>

\* what the loops and the operator leave alone, apart from the store
\* the configuration, the mirror loop and the media server
otherVars == <<users, reply, bus, socket, media, runner, db, brainz, oauth>>

auxVars == <<paths, mirror, server, otherVars>>

sideVars == <<remote, fetch, limiterVars, auxVars>>

\* all but the limiter, its callers and the event count
mainVars == <<clock, status, ytdata, files, dirs, file_cache, notes, trig, tag, sync, op, playlist_config,
              playlists, remote, fetch, auxVars>>

vars == <<clock, status, ytdata, files, dirs, file_cache, notes, trig, tag, sync, op, playlist_config, events,
          playlists, remote, fetch, now, times, callers, log, paths, mirror, server,
          users, reply, bus, socket, media, runner, db, brainz, oauth>>

\* the loops, the operator, the store, the limiter and the mirror
coreVars == <<clock, status, ytdata, files, dirs, file_cache, notes, trig, tag, sync, op, playlist_config, events,
              playlists, remote, fetch, limiterVars, paths, mirror, server>>

\* ------------------------------------------------------------- paths
\* the configuration the main specifications run under: two separate
\* directories and no migrate directory
MsPaths_default == [music |-> <<"music">>, temp |-> <<"temp">>, migrate |-> NoPath]

MusicBase == paths.music
TempBase == paths.temp
get_base_paths ==
    {paths.music, paths.temp} \cup (IF paths.migrate = NoPath THEN {} ELSE {paths.migrate})

TempPath(v) == TempBase \o <<v>>
DestPath(m) == MusicBase \o <<MetaArtist(m), MetaAlbum(m), MetaTitle(m)>>
LibPaths == {DestPath(m) : m \in Metas}
FilePaths == {TempPath(v) : v \in Videos} \cup LibPaths

\* ------------------------------------------------------------- store
Rows == DOMAIN status

set_full_track_status(tbl, st) ==
    [v \in DOMAIN tbl \cup {st.video_id} |-> IF v = st.video_id THEN st ELSE tbl[v]]

get_all_unprocessed_ids ==
    {v \in Rows : status[v].fetch_status \in {"NotFetched", "Fetched"}}

get_video_fetch_status(v) == IF v \in Rows THEN status[v].fetch_status ELSE None

set_videos_reindex(tbl, ids) ==
    [v \in DOMAIN tbl |->
        IF v \in ids /\ tbl[v].fetch_status = "Categorized"
        THEN [tbl[v] EXCEPT !.fetch_status = "Fetched"]
        ELSE tbl[v]]

\* status.update_now()
update_now(st) == [st EXCEPT !.last_update = clock]

\* ------------------------------------------------------------- playlists
PlaylistIds == {"p1", "p2"}

\* the provider's playlist as sync_all finds it when nobody edits it
RemoteOf(p) ==
    [etag |-> "e1", total_results |-> Len(RemotePlaylist(p)), items |-> RemotePlaylist(p)]

\* chrono::Duration::minutes(1), in seconds
PLAYLISTS_QUICK_CACHE_TIME == 60

\* the order of the primary-key index (playlist_id, video_id)
VideoRank(v) == CASE v = "v1" -> 1 [] v = "v2" -> 2 [] OTHER -> 3
IndexOrder(items) ==
    SortSeq(items, LAMBDA a, b : VideoRank(a.video_id) < VideoRank(b.video_id))

\* try_get_playlist: the row of the playlist and its items, without ORDER BY
HasPlaylist(tbl, p) == p \in DOMAIN tbl
try_get_playlist(tbl, p) == [tbl[p] EXCEPT !.items = IndexOrder(tbl[p].items)]

\* get_playlist, the recently fetched path: the cached playlist is young enough
RecentlyFetched(tbl, p) ==
    HasPlaylist(tbl, p) /\ clock - tbl[p].fetch_time < PLAYLISTS_QUICK_CACHE_TIME

\* get_playlist_reponse: page k of the provider's answer, maxResults items a page
Response(rem, k) ==
    LET from == (k - 1) * MaxResults + 1
        upto == IF k * MaxResults < Len(rem.items) THEN k * MaxResults ELSE Len(rem.items)
    IN [etag |-> rem.etag, total_results |-> rem.total_results,
        items |-> SubSeq(rem.items, from, upto),
        next_page_token |-> IF k * MaxResults < Len(rem.items) THEN k + 1 ELSE 0]

\* the etag path without the comparison of the number of cached items
EtagShortcut_CountOnly(cached, response) ==
    /\ cached.etag = response.etag
    /\ cached.total_results = response.total_results

\* get_playlist, the etag path: the three comparisons with the cached playlist
EtagShortcut(cached, response) ==
    /\ cached.etag = response.etag
    /\ cached.total_results = response.total_results
    /\ Len(cached.items) = response.total_results

\* drain_to: the items of one response, numbered by enumerate()
drain_to(items, response) ==
    items \o [i \in 1..Len(response.items) |->
                 [video_id |-> response.items[i], position |-> i - 1,
                  jelly_status |-> "NotSynced"]]

\* Playlist { fetch_time: now, etag, total_results, items: empty }
NewPlaylist(p, response) ==
    [playlist_id |-> p, fetch_time |-> clock, etag |-> response.etag,
     total_results |-> response.total_results, items |-> <<>>]

\* set_playlist: the table after the first k statements of the transaction:
\* DELETE FROM playlists (its items go by ON DELETE CASCADE), INSERT INTO
\* playlists, and one INSERT INTO playlist_items for each item
Work(tbl, pl, k) ==
    LET p == pl.playlist_id
        row == [etag |-> pl.etag, total_results |-> pl.total_results,
                fetch_time |-> pl.fetch_time, items |-> SubSeq(pl.items, 1, k - 2)]
    IN IF k = 0 THEN tbl
       ELSE IF k = 1 THEN [q \in DOMAIN tbl \ {p} |-> tbl[q]]
       ELSE [q \in DOMAIN tbl \cup {p} |-> IF q = p THEN row ELSE tbl[q]]

\* the process is not stopped
Never == 0 - 1

\* the statements that run before one fails on PRIMARY KEY (playlist_id, video_id)
Conflict(pl) ==
    {j + 1 : j \in {j \in 1..Len(pl.items) :
                       \E i \in 1..(j - 1) : pl.items[i].video_id = pl.items[j].video_id}}

\* the statements that run: all of them, or those before the process stops at
\* stop_at, or those before unwrap() panics on a conflict
Statements(pl, stop_at) ==
    LET stops == Conflict(pl) \cup (IF stop_at = Never THEN {} ELSE {stop_at})
    IN IF stops = {} THEN Len(pl.items) + 2
       ELSE CHOOSE k \in stops : \A j \in stops : k <= j

\* tx.commit() is reached
Committed(pl, stop_at) == stop_at = Never /\ Conflict(pl) = {}

\* set_playlist without the transaction: what has run stays
set_playlist_Unjournaled(tbl, pl, stop_at) == Work(tbl, pl, Statements(pl, stop_at))

\* set_playlist: tx.commit() after the last statement, a rollback otherwise
set_playlist(tbl, pl, stop_at) ==
    IF Committed(pl, stop_at) THEN Work(tbl, pl, Len(pl.items) + 2) ELSE tbl

update_playlist_fetch_time(tbl, p, t) == [tbl EXCEPT ![p].fetch_time = t]

\* the pages of a full fetch, drained one after the other
RECURSIVE DrainFrom(_, _, _)
DrainFrom(items, rem, k) ==
    LET response == Response(rem, k)
    IN IF response.next_page_token = 0 THEN drain_to(items, response)
       ELSE DrainFrom(drain_to(items, response), rem, response.next_page_token)

\* get_playlist when every request is answered and the provider's playlist
\* stays as it is meanwhile: the playlist returned and the table left
get_playlist(tbl, rem, p) ==
    IF RecentlyFetched(tbl, p)
    THEN [playlist |-> try_get_playlist(tbl, p), table |-> tbl, panic |-> FALSE]
    ELSE IF HasPlaylist(tbl, p) /\ EtagShortcut(try_get_playlist(tbl, p), Response(rem, 1))
    THEN [playlist |-> try_get_playlist(tbl, p),
          table |-> update_playlist_fetch_time(tbl, p, clock), panic |-> FALSE]
    ELSE LET playlist == [NewPlaylist(p, Response(rem, 1)) EXCEPT
                              !.items = DrainFrom(<<>>, rem, 1)]
         IN [playlist |-> playlist, table |-> set_playlist(tbl, playlist, Never),
             panic |-> Conflict(playlist) # {}]

\* ------------------------------------------------------------- limiter
\* Duration::from_millis(15), in units of 5 ms
CHECK_TOLERANCE == 3
\* Duration::from_secs(10), in units of 5 ms
RATE_LIMIT_WAIT == 2000

\* Option<Instant>::None
NoInstant == 0 - 1

\* Limiter::new
Limiter_new == [next_allowed_time |-> NoInstant, claimed_next_time |-> NoInstant]

\* Instant - Instant (duration_since): zero when the other instant is the later
duration_since(a, b) == IF a > b THEN a - b ELSE 0

\* try_claim_next that returns None without moving next_allowed_time
try_claim_next_KeepsAllowance(t, n) ==
    IF t.next_allowed_time = NoInstant \/ n > t.next_allowed_time - CHECK_TOLERANCE
    THEN [times |-> t, wait |-> NoInstant]
    ELSE [times |-> [t EXCEPT !.claimed_next_time = t.next_allowed_time],
          wait |-> duration_since(n, t.next_allowed_time)]

\* try_claim_next at instant n: the times left and the Duration to sleep,
\* NoInstant for None; checked_sub finds an Instant, the clock's origin being
\* long past
try_claim_next(t, n) ==
    IF t.next_allowed_time = NoInstant
    THEN [times |-> [t EXCEPT !.next_allowed_time = n + wait_time], wait |-> NoInstant]
    ELSE IF n > t.next_allowed_time - CHECK_TOLERANCE
    THEN [times |-> [t EXCEPT !.next_allowed_time = n + wait_time], wait |-> NoInstant]
    ELSE LET new_claimed_time ==
                 IF /\ t.claimed_next_time # NoInstant
                    /\ t.claimed_next_time > t.next_allowed_time
                 THEN t.claimed_next_time + wait_time
                 ELSE t.next_allowed_time
         IN [times |-> [t EXCEPT !.claimed_next_time = new_claimed_time],
             wait |-> duration_since(n, new_claimed_time)]

\* allow_next_fetch_in that only drops the claimed slot
allow_next_fetch_in_KeepsAllowance(t, n, duration) ==
    [t EXCEPT !.claimed_next_time = NoInstant]

\* allow_next_fetch_in(duration) at instant n
allow_next_fetch_in(t, n, duration) ==
    [next_allowed_time |-> n + duration, claimed_next_time |-> NoInstant]

\* LIMITER.set_last_fetch_now(), which the limiter of this revision does not
\* have: the fetch counts as made now, the next is allowed wait_time later
set_last_fetch_now(t, n) == allow_next_fetch_in(t, n, wait_time)

\* the tasks that wait on one limiter: two callers of wait_for_next_fetch and
\* the resolver, which sends its request when the wait is over
Resolver == "r"
Callers == {"a", "b", Resolver}

\* a caller: its position, what is left of its sleep, and for the resolver the
\* instant it saw the 503
CallerIdle == [pc |-> "idle", sleep |-> 0, observed |-> NoInstant]
NoCalls ==
    [arrivals |-> <<>>, returns |-> <<>>, last_return |-> NoInstant,
     allowed_at |-> NoInstant, allowed_for |-> 0, allowed_since |-> FALSE]

\* ------------------------------------------------------------- files
Parent(p) == SubSeq(p, 1, Len(p) - 1)
starts_with(p, b) == Len(b) <= Len(p) /\ SubSeq(p, 1, Len(b)) = b
is_sub_file(p) == \E b \in get_base_paths : starts_with(p, b) /\ p # b

\* the entries read_dir finds in directory d
Entries(fs, ds, d) ==
    {p \in DOMAIN fs : fs[p].ex /\ Parent(p) = d}
        \cup {x \in ds : Len(x) > 0 /\ Parent(x) = d}

RECURSIVE CleanupFrom(_, _, _)
CleanupFrom(fs, ds, p) ==
    IF Len(p) = 0 \/ ~is_sub_file(p) THEN ds
    ELSE IF p \notin ds THEN ds
    ELSE IF Entries(fs, ds, p) # {} THEN ds
    ELSE CleanupFrom(fs, ds \ {p}, Parent(p))

cleanup_directory(fs, ds, file) ==
    IF ~is_sub_file(file) THEN ds ELSE CleanupFrom(fs, ds, Parent(file))

\* delete_file: os_ok is whether remove_file succeeds
delete_file(fs, ds, path, os_ok) ==
    IF ~is_sub_file(path) \/ ~os_ok
    THEN [ok |-> FALSE, files |-> fs, dirs |-> ds]
    ELSE LET fs2 == [fs EXCEPT ![path] = NoFile]
         IN [ok |-> TRUE, files |-> fs2, dirs |-> cleanup_directory(fs2, ds, path)]

\* move_file: how is what the file system lets succeed
\*   "rename"   rename succeeds
\*   "copy"     rename fails, copy and delete succeed
\*   "copy_nodel" rename fails, copy succeeds, delete fails
\*   "fail"     rename and copy fail
move_file_IgnoresDelete(fs, ds, path, new_path, how) ==
    IF how = "rename"
    THEN LET fs2 == IF path = new_path THEN fs
                    ELSE [fs EXCEPT ![new_path] = fs[path], ![path] = NoFile]
         IN [ok |-> TRUE, files |-> fs2, dirs |-> cleanup_directory(fs2, ds, path)]
    ELSE IF how = "fail"
    THEN [ok |-> FALSE, files |-> fs, dirs |-> ds]
    ELSE [delete_file([fs EXCEPT ![new_path] = fs[path]], ds, path, how = "copy")
            EXCEPT !.ok = TRUE]
move_file(fs, ds, path, new_path, how) ==
    IF how = "rename"
    THEN LET fs2 == IF path = new_path THEN fs
                    ELSE [fs EXCEPT ![new_path] = fs[path], ![path] = NoFile]
         IN [ok |-> TRUE, files |-> fs2, dirs |-> cleanup_directory(fs2, ds, path)]
    ELSE IF how = "fail"
    THEN [ok |-> FALSE, files |-> fs, dirs |-> ds]
    ELSE delete_file([fs EXCEPT ![new_path] = fs[path]], ds, path, how = "copy")

\* create_dir_all(new_path) for the destination of metadata m
create_dir_all(ds, m) ==
    ds \cup {MusicBase, MusicBase \o <<MetaArtist(m)>>, MusicBase \o <<MetaArtist(m), MetaAlbum(m)>>}

check_file(fs, path, v) == fs[path].ex /\ fs[path].yid = v

ytdlp_find_local_file(fs, v) == IF fs[TempPath(v)].ex THEN TempPath(v) ELSE NoPath

\* create_cache over the music tree: one path per embedded youtube_id; the walk
\* order decides which when several files carry the same id
create_cache(fs) ==
    {c \in [Videos -> LibPaths \cup {NoPath}] :
        \A v \in Videos :
            IF \E p \in LibPaths : check_file(fs, p, v)
            THEN c[v] # NoPath /\ check_file(fs, c[v], v)
            ELSE c[v] = NoPath}

\* musicfiles::find_local_file: the possible (path, cache) results
find_local_file(fs, cache, v) ==
    IF cache[v] # NoPath /\ check_file(fs, cache[v], v)
    THEN {[path |-> cache[v], cache |-> cache]}
    ELSE IF get_video_fetch_status(v) = "Disabled"
    THEN {[path |-> NoPath, cache |-> cache]}
    ELSE {[path |-> c[v], cache |-> c] : c \in create_cache(fs)}

find_file(fs, cache, v) ==
    IF ytdlp_find_local_file(fs, v) # NoPath
    THEN {[path |-> ytdlp_find_local_file(fs, v), cache |-> cache]}
    ELSE find_local_file(fs, cache, v)

\* ------------------------------------------------------------- channels
\* broadcast::channel(1): one unread message, or a Lagged error and a message
trigger_tagger(t) == IF t < 2 THEN t + 1 ELSE 2

\* NOTIFY_MUSIC_UPDATE.send(serde_json::to_string(&vec![status])): the message
\* is the row; of the channel the newest message is kept, and of the message
\* the fields the subscribers are told about here
Message(st) ==
    [video_id |-> st.video_id, fetch_status |-> st.fetch_status, last_error |-> st.last_error]
push_update_notification(ns, st) == Message(st)

\* ------------------------------------------------------------- init
TagIdle ==
    [pc |-> "idle", queue |-> {}, cur |-> None, st |-> VideoStatus_new(None),
     res |-> None, query |-> None, cont |-> None]
SyncIdle ==
    [pc |-> "idle", ids |-> {}, todo |-> <<>>, ins |-> <<>>, st |-> VideoStatus_new(None)]
\* PlaylistConfig::new
PlaylistConfig_new(p) == [playlist_id |-> p, jelly_playlist_id |-> None, enabled |-> TRUE]
NoPlaylists == [p \in {} |-> RemoteOf(p)]
NoPlaylist ==
    [playlist_id |-> None, fetch_time |-> NoTime, etag |-> None, total_results |-> 0, items |-> <<>>]
\* get_playlist before its first call: nothing cached, built or returned
FetchIdle ==
    [pc |-> "idle", has_cached |-> FALSE, cached |-> NoPlaylist, playlist |-> NoPlaylist,
     next_page |-> 0, ret |-> "none"]
\* jellyfin::sync_all before its first call
MirrorIdle == [pc |-> "idle", unsynced |-> {}, todo |-> <<>>, ids |-> <<>>]
\* a media server that lists no item and was sent no update
ServerNew == [listed |-> {}, held |-> <<>>, updates |-> 0]
InitJelly == mirror = MirrorIdle /\ server = ServerNew
\* table users before the first user is added
NoUsers == [u \in {} |-> None]
\* no sign_in request was answered yet
NoReply == [username |-> None, password |-> None, status_code |-> None, message |-> None, token |-> <<>>]
\* ws_handler was not called yet
SocketNew == [pc |-> "none", next |-> 0, sent |-> <<>>, init_list |-> <<>>]
\* no audio file was opened yet
NoMedia == [format |-> None, tag |-> <<>>, file |-> <<>>, did |-> [op |-> "none", key |-> None, value |-> None]]
\* trigger_loop before interval() and subscribe()
RunnerNew == [pc |-> "new", due |-> 0, inbox |-> 0, step |-> 0, started |-> 0, finished |-> 0]
\* a database file that was not opened yet
DbClosed == [pc |-> "closed", version |-> <<>>, schema |-> {}, undo |-> {}, new_ver |-> 0, at |-> 0, crashes |-> 0]
\* analyze_brainz was not called yet
BrainzIdle ==
    [pc |-> "idle", dlp |-> <<>>, search |-> <<>>, at |-> 0, asked |-> <<>>, text |-> <<>>, ret |-> <<>>,
     cache |-> {}, gets |-> 0, waits |-> 0, sends |-> 0, sets |-> 0, calls |-> 0]
\* get_auth was not called yet
OauthIdle ==
    [pc |-> "idle", t |-> 0, expires_in |-> 0, interval |-> 0, stored |-> <<>>, ret |-> "none",
     polls |-> 0, polled_at |-> 0]
InitOther ==
    /\ db = DbClosed
    /\ brainz = BrainzIdle
    /\ oauth = OauthIdle
    /\ users = NoUsers
    /\ reply = NoReply
    /\ bus = <<>>
    /\ socket = SocketNew
    /\ media = NoMedia
    /\ runner = RunnerNew

OpIdle ==
    [pc |-> "idle", cmd |-> None, v |-> None, arg |-> None, was |-> None,
     st |-> VideoStatus_new(None)]

Init ==
    /\ paths = MsPaths_default
    /\ clock = 0
    /\ status = [v \in {} |-> VideoStatus_new(v)]
    /\ ytdata = {}
    /\ files = [p \in FilePaths |-> NoFile]
    /\ dirs = {MusicBase, TempBase}
    /\ file_cache = [v \in Videos |-> NoPath]
    /\ notes = Message(VideoStatus_new(None))
    /\ trig = 0
    /\ tag = TagIdle
    /\ sync = SyncIdle
    /\ op = OpIdle
    /\ playlist_config = <<PlaylistConfig_new("p1")>>
    /\ events = 0
    /\ playlists = NoPlaylists
    /\ remote = [p \in PlaylistIds |-> RemoteOf(p)]
    /\ fetch = FetchIdle
    /\ now = 0
    /\ times = Limiter_new
    /\ callers = [c \in Callers |-> CallerIdle]
    /\ log = NoCalls
    /\ InitJelly
    /\ InitOther

\* The loops share the task of main: one resumes only while the other awaits.
TagParked == tag.pc \in {"idle", "fetching", "resolving"}
SyncParked == sync.pc \in {"idle", "fetch"}

\* A second passes.
Tick ==
    /\ clock < MaxClock
    /\ clock' = clock + 1
    /\ UNCHANGED <<sideVars, playlists, status, ytdata, files, dirs, file_cache, notes, trig, tag, sync, op, playlist_config, events>>

\* ------------------------------------------------------------- tagger loop
\* MsState::push_update, first half: update_now(); the write and the
\* notification follow as steps of their own (TagPushWrite, TagPushNotify)
push_update(t, st, cont) == [t EXCEPT !.pc = "push_w", !.st = update_now(st), !.cont = cont]

\* sync_playlist_item returns: the loop goes on with the next id
TagReturn == [TagIdle EXCEPT !.pc = "next", !.queue = tag.queue]

\* the arm of `match status.fetch_status` taken for a row
MatchArm(st) ==
    IF st.fetch_status = "NotFetched" THEN "get_meta"
    ELSE IF st.fetch_status \in {"FetchError", "Categorized", "Disabled"} THEN "next"
    ELSE "try_meta"

\* the Ok(dlp_file) arm without the assignment of fetch_time
AcquireOk_NoFetchTime(st) == [st EXCEPT !.fetch_status = "Fetched"]
\* Ok(dlp_file) arm: fetch_time = now, state Fetched
AcquireOk(st) == [st EXCEPT !.fetch_time = clock, !.fetch_status = "Fetched"]
\* Err(err) arm: last_error = err, state FetchError
AcquireErr(st) == [st EXCEPT !.last_error = "fetch", !.fetch_status = "FetchError"]

\* trigger_loop: the interval ticks; the body reads get_all_unprocessed_ids
TagTick ==
    /\ tag.pc = "idle" /\ SyncParked
    /\ tag' = [tag EXCEPT !.pc = "next", !.queue = get_all_unprocessed_ids]
    /\ UNCHANGED <<sideVars, playlists, clock, status, ytdata, files, dirs, file_cache, notes, trig, sync, op, playlist_config, events>>

\* trigger_loop: trigger.recv() completes (a message or a Lagged error)
TagTriggered ==
    /\ tag.pc = "idle" /\ SyncParked /\ trig > 0
    /\ trig' = trig - 1
    /\ tag' = [tag EXCEPT !.pc = "next", !.queue = get_all_unprocessed_ids]
    /\ UNCHANGED <<sideVars, playlists, clock, status, ytdata, files, dirs, file_cache, notes, sync, op, playlist_config, events>>

\* the for loop over all_ids is done
TagPassEnd ==
    /\ tag.pc = "next" /\ tag.queue = {}
    /\ tag' = TagIdle
    /\ UNCHANGED <<sideVars, playlists, clock, status, ytdata, files, dirs, file_cache, notes, trig, sync, op, playlist_config, events>>

\* sync_playlist_item: get_video and the match on fetch_status
TagRead(v) ==
    /\ tag.pc = "next" /\ v \in tag.queue /\ v \in Rows
    /\ tag' = IF MatchArm(status[v]) = "next"
              THEN [tag EXCEPT !.queue = tag.queue \ {v}]
              ELSE [tag EXCEPT !.pc = MatchArm(status[v]), !.queue = tag.queue \ {v},
                               !.cur = v, !.st = status[v]]
    /\ UNCHANGED <<sideVars, playlists, clock, status, ytdata, files, dirs, file_cache, notes, trig, sync, op, playlist_config, events>>

\* ytdlp::get: the cached metadata is returned, or the extractor is awaited
TagGetMeta ==
    /\ tag.pc = "get_meta"
    /\ tag' = IF tag.cur \in ytdata
              THEN push_update(tag, AcquireOk(tag.st), "ovr_result")
              ELSE [tag EXCEPT !.pc = "fetching"]
    /\ UNCHANGED <<sideVars, playlists, clock, status, ytdata, files, dirs, file_cache, notes, trig, sync, op, playlist_config, events>>

\* the extractor wrote <temp>/<id>.<ext> and its JSON parsed
ExtractorOk ==
    /\ tag.pc = "fetching" /\ SyncParked
    /\ files' = [files EXCEPT ![TempPath(tag.cur)] = RawFile]
    /\ tag' = [tag EXCEPT !.pc = "set_dlp"]
    /\ UNCHANGED <<sideVars, playlists, clock, status, ytdata, dirs, file_cache, notes, trig, sync, op, playlist_config, events>>

\* the extractor failed
ExtractorErr ==
    /\ tag.pc = "fetching" /\ SyncParked
    /\ tag' = push_update(tag, AcquireErr(tag.st), "next")
    /\ UNCHANGED <<sideVars, playlists, clock, status, ytdata, files, dirs, file_cache, notes, trig, sync, op, playlist_config, events>>

\* ytdlp::get: set_yt_dlp, then the Ok arm of sync_playlist_item
TagSetDlp ==
    /\ tag.pc = "set_dlp"
    /\ ytdata' = ytdata \cup {tag.cur}
    /\ tag' = push_update(tag, AcquireOk(tag.st), "ovr_result")
    /\ UNCHANGED <<sideVars, playlists, clock, status, files, dirs, file_cache, notes, trig, sync, op, playlist_config, events>>

\* the `_` arm: try_get_metadata
TagTryMeta ==
    /\ tag.pc = "try_meta"
    /\ tag' = IF tag.cur \in ytdata
              THEN [tag EXCEPT !.pc = "ovr_result"]
              ELSE push_update(tag, [tag.st EXCEPT !.fetch_status = "FetchError"], "next")
    /\ UNCHANGED <<sideVars, playlists, clock, status, ytdata, files, dirs, file_cache, notes, trig, sync, op, playlist_config, events>>

\* MsState::push_update: set_full_track_status
TagPushWrite ==
    /\ tag.pc = "push_w"
    /\ status' = set_full_track_status(status, tag.st)
    /\ tag' = [tag EXCEPT !.pc = "push_n"]
    /\ UNCHANGED <<sideVars, playlists, clock, ytdata, files, dirs, file_cache, notes, trig, sync, op, playlist_config, events>>

\* MsState::push_update: push_update_notification; then the code that follows
\* ("again" is the second push_update after a resolver answer)
TagPushNotify ==
    /\ tag.pc = "push_n"
    /\ notes' = push_update_notification(notes, tag.st)
    /\ tag' = IF tag.cont = "again" THEN push_update(tag, tag.st, "files")
              ELSE IF tag.cont = "next" THEN TagReturn
              ELSE [tag EXCEPT !.pc = tag.cont, !.cont = None]
    /\ UNCHANGED <<sideVars, playlists, clock, status, ytdata, files, dirs, file_cache, trig, sync, op, playlist_config, events>>

\* a result override that is read from the column last_result
get_track_result_override_LastResult(v) == status[v].last_result
\* get_track_result_override / get_track_query_override
get_track_result_override(v) == status[v].override_result
get_track_query_override(v) == status[v].override_query

\* metadata step: an override_result is used verbatim
TagOvrResult ==
    /\ tag.pc = "ovr_result"
    /\ tag' = IF get_track_result_override(tag.cur) # None
              THEN [push_update(tag, tag.st, "files") EXCEPT
                        !.res = get_track_result_override(tag.cur)]
              ELSE [tag EXCEPT !.pc = "ovr_query"]
    /\ UNCHANGED <<sideVars, playlists, clock, status, ytdata, files, dirs, file_cache, notes, trig, sync, op, playlist_config, events>>

\* metadata step: the query is the override_query, or derived from the
\* extractor metadata and recorded as last_query; analyze_brainz is awaited
TagOvrQuery ==
    /\ tag.pc = "ovr_query"
    /\ tag' = IF get_track_query_override(tag.cur) # None
              THEN [tag EXCEPT !.pc = "resolving",
                               !.query = get_track_query_override(tag.cur)]
              ELSE [tag EXCEPT !.pc = "resolving", !.query = "dlp",
                               !.st = [tag.st EXCEPT !.last_query = "dlp"]]
    /\ UNCHANGED <<sideVars, playlists, clock, status, ytdata, files, dirs, file_cache, notes, trig, sync, op, playlist_config, events>>

\* analyze_brainz answers m
ResolveOk(m) ==
    /\ tag.pc = "resolving" /\ SyncParked
    /\ tag' = [push_update(tag, [tag.st EXCEPT !.last_result = m], "again") EXCEPT !.res = m]
    /\ UNCHANGED <<sideVars, playlists, clock, status, ytdata, files, dirs, file_cache, notes, trig, sync, op, playlist_config, events>>

\* analyze_brainz fails
ResolveErr ==
    /\ tag.pc = "resolving" /\ SyncParked
    /\ tag' = push_update(tag, [tag.st EXCEPT !.last_result = None, !.last_error = "brainz",
                                              !.fetch_status = "BrainzError"], "next")
    /\ UNCHANGED <<sideVars, playlists, clock, status, ytdata, files, dirs, file_cache, notes, trig, sync, op, playlist_config, events>>

\* what the file system lets succeed, and the outcomes in which an operation fails
FileOutcomes == {"apply_fail", "mkdir_fail", "rename", "copy", "copy_nodel", "fail"}
FileFaults == FileOutcomes \ {"rename"}

\* the last lines of sync_playlist_item: state Categorized, last_error = None
Categorize(st) == [st EXCEPT !.last_error = None, !.fetch_status = "Categorized"]

\* find_file, apply_metadata_to_file, move_file_to_library, under the lock of
\* file_cache; then the write of Categorized is prepared
TagFiles(how) ==
    /\ tag.pc = "files"
    /\ how \in FileFaults => events < MaxEvents
    /\ \E f \in find_file(files, file_cache, tag.cur) :
        IF f.path = NoPath
        THEN /\ how = "rename"
             /\ file_cache' = f.cache
             /\ tag' = TagReturn
             /\ UNCHANGED <<sideVars, playlists, files, dirs, events>>
        ELSE LET fs1 == [files EXCEPT ![f.path] = Tagged(tag.cur, tag.res)]
                 r == move_file(fs1, create_dir_all(dirs, tag.res), f.path,
                                DestPath(tag.res), how)
             IN \* rename(2) of an existing file onto itself does nothing and succeeds
                /\ f.path = DestPath(tag.res) => how \notin {"copy", "copy_nodel", "fail"}
                /\ events' = IF how \in FileFaults THEN events + 1 ELSE events
                /\ IF how = "apply_fail"
                   THEN /\ file_cache' = f.cache
                        /\ tag' = TagReturn
                        /\ UNCHANGED <<sideVars, playlists, files, dirs>>
                   ELSE IF how = "mkdir_fail"
                   THEN /\ files' = fs1
                        /\ file_cache' = f.cache
                        /\ tag' = TagReturn
                        /\ UNCHANGED dirs
                   ELSE /\ files' = r.files
                        /\ dirs' = r.dirs
                        /\ file_cache' = IF r.ok
                                         THEN [f.cache EXCEPT ![tag.cur] = DestPath(tag.res)]
                                         ELSE f.cache
                        /\ tag' = IF r.ok THEN push_update(tag, Categorize(tag.st), "next")
                                  ELSE TagReturn
    /\ UNCHANGED <<sideVars, playlists, clock, status, ytdata, notes, trig, sync, op, playlist_config>>

TaggerNext ==
    \/ TagTick \/ TagTriggered \/ TagPassEnd
    \/ \E v \in Videos : TagRead(v)
    \/ TagGetMeta \/ ExtractorOk \/ ExtractorErr \/ TagSetDlp \/ TagTryMeta
    \/ TagPushWrite \/ TagPushNotify \/ TagOvrResult \/ TagOvrQuery
    \/ \E m \in Metas : ResolveOk(m)
    \/ ResolveErr
    \/ \E how \in FileOutcomes : TagFiles(how)

\* ------------------------------------------------------------- operator
\* the bodies an operator posts: null, a query or result, and one with
\* surrounding blanks
QueryArgs == {None, "oq", " oq "}
ResultArgs == Metas \cup {None, " m2 "}

\* the handlers trim the strings of a posted query or result
cleaned_query(q) == IF q = " oq " THEN "oq" ELSE q
cleaned_result(r) == IF r = " m2 " THEN "m2" ELSE r

\* the closures handed to MsState::push_override
RetryClosure(st) == [st EXCEPT !.fetch_status = "NotFetched"]
QueryClosure(st, q) ==
    [st EXCEPT !.override_query = cleaned_query(q), !.fetch_status = "Fetched"]
\* the closure of /result without the assignment of fetch_status
ResultClosure_KeepsState(st, r) == [st EXCEPT !.override_result = cleaned_result(r)]
ResultClosure(st, r) ==
    [st EXCEPT !.override_result = cleaned_result(r), !.fetch_status = "Fetched"]
DeleteClosure(st) == [st EXCEPT !.fetch_status = "Disabled"]

\* modify_video_status: get_video, the closure, update_now; the write follows
\* as a step of its own (OpWrite)
OpBegin(cmd, v, arg, applies, st) ==
    /\ op.pc = "idle" /\ events < MaxEvents
    /\ events' = events + 1
    /\ op' = IF v \in Rows /\ applies
             THEN [pc |-> "w", cmd |-> cmd, v |-> v, arg |-> arg,
                   was |-> status[v].fetch_status, st |-> update_now(st)]
             ELSE OpIdle
    /\ UNCHANGED <<sideVars, playlists, clock, status, ytdata, files, dirs, file_cache, notes, trig, tag, sync, playlist_config>>

\* POST /video/{video}/retry_fetch
OpRetry(v) ==
    /\ v \in Rows
    /\ OpBegin("retry", v, None, ~is_downloaded(status[v]), RetryClosure(status[v]))

\* POST /video/{video}/query
OpQuery(v, q) ==
    /\ v \in Rows
    /\ OpBegin("query", v, q, is_downloaded(status[v]), QueryClosure(status[v], q))

\* POST /video/{video}/result
OpResult(v, r) ==
    /\ v \in Rows
    /\ OpBegin("result", v, r, is_downloaded(status[v]), ResultClosure(status[v], r))

\* a request for an id that has no row: get_video finds nothing
OpUnknown(v) ==
    /\ v \notin Rows
    /\ OpBegin("retry", v, None, FALSE, VideoStatus_new(v))

\* POST /video/{video}/delete: get_video
OpDelete(v) ==
    /\ op.pc = "idle" /\ events < MaxEvents /\ v \in Rows
    /\ events' = events + 1
    /\ op' = [pc |-> "del_yt", cmd |-> "delete", v |-> v, arg |-> None,
              was |-> status[v].fetch_status, st |-> status[v], had_ytdata |-> v \in ytdata]
    /\ UNCHANGED <<sideVars, playlists, clock, status, ytdata, files, dirs, file_cache, notes, trig, tag, sync, playlist_config>>

\* the delete closure: delete_yt_data
OpDelYt ==
    /\ op.pc = "del_yt"
    /\ ytdata' = ytdata \ {op.v}
    /\ op' = [op EXCEPT !.pc = "del_file"]
    /\ UNCHANGED <<sideVars, playlists, clock, status, files, dirs, file_cache, notes, trig, tag, sync, playlist_config, events>>

\* the delete closure: find_file and delete_file under the lock of file_cache;
\* a failed delete makes the closure return false (the failure belongs to the
\* request, which is counted when it arrives)
OpDelFile(os_ok) ==
    /\ op.pc = "del_file"
    /\ \E f \in find_file(files, file_cache, op.v) :
        LET r == delete_file(files, dirs, f.path, os_ok)
        IN /\ file_cache' = f.cache
           /\ IF f.path = NoPath
              THEN /\ os_ok
                   /\ op' = [op EXCEPT !.pc = "w", !.st = update_now(DeleteClosure(op.st))]
                   /\ UNCHANGED <<sideVars, playlists, files, dirs, events>>
              ELSE /\ files' = r.files
                   /\ dirs' = r.dirs
                   /\ UNCHANGED events
                   /\ op' = IF r.ok
                            THEN [op EXCEPT !.pc = "w", !.st = update_now(DeleteClosure(op.st))]
                            ELSE OpIdle
    /\ UNCHANGED <<sideVars, playlists, clock, status, ytdata, notes, trig, tag, sync, playlist_config>>

\* modify_video_status: set_full_track_status
OpWrite ==
    /\ op.pc = "w"
    /\ status' = set_full_track_status(status, op.st)
    /\ op' = [op EXCEPT !.pc = "n"]
    /\ UNCHANGED <<sideVars, playlists, clock, ytdata, files, dirs, file_cache, notes, trig, tag, sync, playlist_config, events>>

\* push_override: trigger_tagger and push_update_notification
OpNotify ==
    /\ op.pc = "n"
    /\ trig' = trigger_tagger(trig)
    /\ notes' = push_update_notification(notes, op.st)
    /\ op' = OpIdle
    /\ UNCHANGED <<sideVars, playlists, clock, status, ytdata, files, dirs, file_cache, tag, sync, playlist_config, events>>

\* POST /reindex: set_videos_reindex
OpReindex(ids) ==
    /\ op.pc = "idle" /\ events < MaxEvents
    /\ events' = events + 1
    /\ status' = set_videos_reindex(status, ids)
    /\ op' = [OpIdle EXCEPT !.pc = "trig", !.cmd = "reindex"]
    /\ UNCHANGED <<sideVars, playlists, clock, ytdata, files, dirs, file_cache, notes, trig, tag, sync, playlist_config>>

\* POST /reindex: trigger_tagger
OpReindexTrigger ==
    /\ op.pc = "trig"
    /\ trig' = trigger_tagger(trig)
    /\ op' = OpIdle
    /\ UNCHANGED <<sideVars, playlists, clock, status, ytdata, files, dirs, file_cache, notes, tag, sync, playlist_config, events>>

OperatorNext ==
    \/ \E v \in Videos : OpRetry(v) \/ OpDelete(v) \/ OpUnknown(v)
    \/ \E v \in Videos, q \in QueryArgs : OpQuery(v, q)
    \/ \E v \in Videos, r \in ResultArgs : OpResult(v, r)
    \/ \E ids \in (SUBSET Videos) \ {{}} : OpReindex(ids)
    \/ OpDelYt
    \/ \E os_ok \in BOOLEAN : OpDelFile(os_ok)
    \/ OpWrite \/ OpNotify \/ OpReindexTrigger

\* ------------------------------------------------------------- playlist sync
\* the Item sync_all inserts for a playlist item
SyncItem(v) == [VideoStatus_new(v) EXCEPT !.last_query = "pl"]

\* the items of a playlist that all_ids does not contain, in the playlist's order
NewItems(ids, playlist) ==
    LET Unknown(item) == item.video_id \notin ids
        video_id(items) == [i \in 1..Len(items) |-> items[i].video_id]
    IN video_id(SelectSeq(playlist.items, Unknown))

\* sync_all goes on: the next item to insert, the next playlist, or the end; a
\* playlist fetched within the last minute is returned without an await
RECURSIVE SyncGoOn(_, _, _, _)
SyncGoOn(tbl, ids, todo, ins) ==
    IF ins # <<>>
    THEN [pc |-> "push_w", ids |-> ids, todo |-> todo, ins |-> Tail(ins),
          st |-> update_now(SyncItem(Head(ins)))]
    ELSE IF todo = <<>>
    THEN SyncIdle
    ELSE IF RecentlyFetched(tbl, Head(todo).playlist_id)
    THEN SyncGoOn(tbl, ids, Tail(todo),
                  NewItems(ids, try_get_playlist(tbl, Head(todo).playlist_id)))
    ELSE [SyncIdle EXCEPT !.pc = "fetch", !.ids = ids, !.todo = todo]

\* trigger_loop: the interval ticks; sync_all: get_playlist_config and get_all_ids
SyncStart ==
    /\ sync.pc = "idle" /\ TagParked
    /\ sync' = SyncGoOn(playlists, Rows, playlist_config, <<>>)
    /\ UNCHANGED <<sideVars, playlists, clock, status, ytdata, files, dirs, file_cache, notes, trig, tag, op, playlist_config, events>>

\* get_playlist answers: the playlist is stored as get_playlist leaves it, and
\* the items that all_ids does not contain are inserted; when an INSERT of
\* set_playlist fails, its unwrap() panics in the task that runs the loops
SyncFetchOk ==
    /\ sync.pc = "fetch" /\ TagParked
    /\ LET p == Head(sync.todo).playlist_id
           got == get_playlist(playlists, remote[p], p)
       IN /\ playlists' = got.table
          /\ sync' = IF got.panic THEN [SyncIdle EXCEPT !.pc = "panic"]
                     ELSE SyncGoOn(got.table, sync.ids, Tail(sync.todo),
                                   NewItems(sync.ids, got.playlist))
    /\ UNCHANGED <<sideVars, clock, status, ytdata, files, dirs, file_cache, notes, trig, tag, op, playlist_config, events>>

\* get_playlist fails: the playlist is skipped
SyncFetchErr ==
    /\ sync.pc = "fetch" /\ TagParked
    /\ sync' = SyncGoOn(playlists, sync.ids, Tail(sync.todo), <<>>)
    /\ UNCHANGED <<sideVars, playlists, clock, status, ytdata, files, dirs, file_cache, notes, trig, tag, op, playlist_config, events>>

\* MsState::push_update: set_full_track_status
SyncPushWrite ==
    /\ sync.pc = "push_w"
    /\ status' = set_full_track_status(status, sync.st)
    /\ sync' = [sync EXCEPT !.pc = "push_n"]
    /\ UNCHANGED <<sideVars, playlists, clock, ytdata, files, dirs, file_cache, notes, trig, tag, op, playlist_config, events>>

\* MsState::push_update: push_update_notification; then trigger_tagger
SyncPushNotify ==
    /\ sync.pc = "push_n"
    /\ notes' = push_update_notification(notes, sync.st)
    /\ trig' = trigger_tagger(trig)
    /\ sync' = SyncGoOn(playlists, sync.ids, sync.todo, sync.ins)
    /\ UNCHANGED <<sideVars, playlists, clock, status, ytdata, files, dirs, file_cache, tag, op, playlist_config, events>>

SyncNext == SyncStart \/ SyncFetchOk \/ SyncFetchErr \/ SyncPushWrite \/ SyncPushNotify

\* ------------------------------------------------------------- get_playlist
\* what the provider may hold for a playlist: total_results counts the items
\* or one more (an item the provider lists but does not deliver)
RemoteLists ==
    {<<>>, <<"v1">>, <<"v1", "v2">>, <<"v2", "v1">>, <<"v1", "v1">>, <<"v1", "v2", "v3">>}
Etags == {"e1", "e2"}
RemoteStates ==
    {[etag |-> e, total_results |-> Len(items) + hidden, items |-> items] :
        e \in Etags, hidden \in {0, 1}, items \in RemoteLists}

\* the playlist get_playlist is followed for
FetchedPlaylist == "p1"

\* the playlist is edited at the provider
RemoteEdit ==
    /\ \E r \in RemoteStates : remote' = [remote EXCEPT ![FetchedPlaylist] = r]
    /\ remote' # remote
    /\ UNCHANGED <<auxVars, limiterVars, playlists, fetch, clock, status, ytdata, files, dirs, file_cache, notes, trig, tag, sync, op, playlist_config, events>>

\* PLAYLISTS_QUICK_CACHE_TIME passes
Minute ==
    /\ clock < MaxClock * PLAYLISTS_QUICK_CACHE_TIME
    /\ clock' = clock + PLAYLISTS_QUICK_CACHE_TIME
    /\ UNCHANGED <<auxVars, limiterVars, playlists, remote, fetch, status, ytdata, files, dirs, file_cache, notes, trig, tag, sync, op, playlist_config, events>>

\* get_playlist returns
FetchReturn(how, playlist) ==
    [fetch EXCEPT !.pc = "idle", !.ret = how, !.playlist = playlist, !.next_page = 0]

\* get_playlist is called: try_get_playlist; a playlist fetched within the last
\* minute is returned, else the first page is requested
ListBegin ==
    /\ fetch.pc = "idle"
    /\ LET has == HasPlaylist(playlists, FetchedPlaylist)
           cached == IF has THEN [try_get_playlist(playlists, FetchedPlaylist) EXCEPT
                                      !.playlist_id = FetchedPlaylist]
                     ELSE NoPlaylist
           called == [FetchIdle EXCEPT !.has_cached = has, !.cached = cached]
       IN fetch' = IF RecentlyFetched(playlists, FetchedPlaylist)
                   THEN [called EXCEPT !.ret = "recent", !.playlist = cached]
                   ELSE [called EXCEPT !.pc = "first"]
    /\ UNCHANGED <<auxVars, limiterVars, playlists, remote, clock, status, ytdata, files, dirs, file_cache, notes, trig, tag, sync, op, playlist_config, events>>

\* a response is drained into the playlist being built; with a next page token
\* the next page is requested, without one set_playlist runs (until statement
\* stop_at, if the process is stopped there) and the playlist is returned
Drained(built, response, stop_at) ==
    LET playlist == [built EXCEPT !.items = drain_to(built.items, response)]
    IN IF response.next_page_token # 0
       THEN /\ stop_at = Never
            /\ fetch' = [fetch EXCEPT !.pc = "page", !.playlist = playlist,
                                      !.next_page = response.next_page_token]
            /\ UNCHANGED playlists
       ELSE /\ stop_at \in {Never} \cup 0..(Len(playlist.items) + 2)
            /\ playlists' = set_playlist(playlists, playlist, stop_at)
            /\ fetch' = IF Committed(playlist, stop_at)
                        THEN FetchReturn("full", playlist)
                        ELSE [FetchIdle EXCEPT !.ret = "stopped"]

\* the first page arrives: the etag path, or a new playlist is built
ListFirst(stop_at) ==
    /\ fetch.pc = "first"
    /\ LET response == Response(remote[FetchedPlaylist], 1)
       IN IF fetch.has_cached /\ EtagShortcut(fetch.cached, response)
          THEN /\ stop_at = Never
               /\ playlists' = update_playlist_fetch_time(playlists, FetchedPlaylist, clock)
               /\ fetch' = FetchReturn("etag", fetch.cached)
          ELSE Drained(NewPlaylist(FetchedPlaylist, response), response, stop_at)
    /\ UNCHANGED <<auxVars, limiterVars, remote, clock, status, ytdata, files, dirs, file_cache, notes, trig, tag, sync, op, playlist_config, events>>

\* a following page arrives
ListPage(stop_at) ==
    /\ fetch.pc = "page"
    /\ Drained(fetch.playlist, Response(remote[FetchedPlaylist], fetch.next_page), stop_at)
    /\ UNCHANGED <<auxVars, limiterVars, remote, clock, status, ytdata, files, dirs, file_cache, notes, trig, tag, sync, op, playlist_config, events>>

\* get_auth or a page request fails: get_playlist returns the error
ListErr ==
    /\ fetch.pc \in {"first", "page"}
    /\ fetch' = FetchReturn("err", NoPlaylist)
    /\ UNCHANGED <<auxVars, limiterVars, playlists, remote, clock, status, ytdata, files, dirs, file_cache, notes, trig, tag, sync, op, playlist_config, events>>

\* the statements of set_playlist the process may be stopped at
StopPoints == {Never} \cup UNION {0..(Len(items) + 2) : items \in RemoteLists}

ListNext ==
    \/ ListBegin
    \/ \E stop_at \in StopPoints : ListFirst(stop_at)
    \/ \E stop_at \in StopPoints : ListPage(stop_at)
    \/ ListErr

\* ------------------------------------------------------------- limiter calls
\* the callers after a Duration d has passed
Sleeping(d) ==
    [c \in Callers |->
        [callers[c] EXCEPT !.sleep = IF callers[c].sleep > d THEN callers[c].sleep - d ELSE 0]]

\* 5 ms pass
Elapse ==
    /\ now < MaxNow
    /\ now' = now + 1
    /\ callers' = Sleeping(1)
    /\ UNCHANGED <<mainVars, events, times, log>>

\* time passes until the sleep of the resolver is over
ElapseSleep ==
    /\ callers[Resolver].pc = "backoff" /\ callers[Resolver].sleep > 0
    /\ now' = now + callers[Resolver].sleep
    /\ callers' = Sleeping(callers[Resolver].sleep)
    /\ UNCHANGED <<mainVars, events, times, log>>

\* wait_for_next_fetch: one turn of the loop, at the call or after a sleep:
\* try_claim_next, then the return or tokio::time::sleep(wait_time); the
\* resolver sends its request on return
Claim(c) ==
    /\ \/ callers[c].pc = "idle"
       \/ callers[c].pc = "asleep" /\ callers[c].sleep = 0
    /\ LET claim == try_claim_next(times, now)
           arrivals == IF callers[c].pc = "idle" THEN Append(log.arrivals, c) ELSE log.arrivals
       IN /\ times' = claim.times
          /\ IF claim.wait = NoInstant
             THEN /\ callers' = [callers EXCEPT ![c] =
                        [CallerIdle EXCEPT !.pc = IF c = Resolver THEN "sending" ELSE "done"]]
                  /\ log' = [log EXCEPT !.arrivals = arrivals, !.returns = Append(@, c),
                                        !.last_return = now, !.allowed_since = FALSE]
             ELSE /\ callers' = [callers EXCEPT ![c].pc = "asleep", ![c].sleep = claim.wait]
                  /\ log' = [log EXCEPT !.arrivals = arrivals]
    /\ UNCHANGED <<mainVars, events, now>>

\* Durations allow_next_fetch_in is called with
BackoffDurations == {1, wait_time + 1}

\* allow_next_fetch_in(duration) is called
AllowNext(duration) ==
    /\ events < MaxEvents
    /\ events' = events + 1
    /\ times' = allow_next_fetch_in(times, now, duration)
    /\ log' = [log EXCEPT !.allowed_at = now, !.allowed_for = duration, !.allowed_since = TRUE]
    /\ UNCHANGED <<mainVars, now, callers>>

\* fetch_recordings_url: the response is 503 SERVICE_UNAVAILABLE:
\* tokio::time::sleep(RATE_LIMIT_WAIT)
Respond503 ==
    /\ callers[Resolver].pc = "sending"
    /\ events < MaxEvents
    /\ events' = events + 1
    /\ callers' = [callers EXCEPT ![Resolver] =
                      [pc |-> "backoff", sleep |-> RATE_LIMIT_WAIT, observed |-> now]]
    /\ UNCHANGED <<mainVars, now, times, log>>

\* the sleep is over: set_last_fetch_now, and the request is sent again
Slept ==
    /\ callers[Resolver].pc = "backoff" /\ callers[Resolver].sleep = 0
    /\ times' = set_last_fetch_now(times, now)
    /\ callers' = [callers EXCEPT ![Resolver] = [CallerIdle EXCEPT !.pc = "sending"]]
    /\ log' = [log EXCEPT !.allowed_at = now, !.allowed_for = wait_time, !.allowed_since = TRUE]
    /\ UNCHANGED <<mainVars, events, now>>

\* any other response: fetch_recordings_url returns
RespondOther ==
    /\ callers[Resolver].pc = "sending"
    /\ callers' = [callers EXCEPT ![Resolver] = [CallerIdle EXCEPT !.pc = "done"]]
    /\ UNCHANGED <<mainVars, events, now, times, log>>

LimiterNext ==
    \/ Elapse \/ ElapseSleep
    \/ \E c \in Callers : Claim(c)
    \/ \E duration \in BackoffDurations : AllowNext(duration)
    \/ Respond503 \/ Slept \/ RespondOther

\* ------------------------------------------------------------- mirror
\* the loops are joined by select! in one task: a loop goes on from an await
\* only while the other loops are at an await, which the mirror loop is
\* between any two of its steps; after a panic no loop goes on

\* the id the media server gives the item at a path
JellyItemId(path) == IF path = DestPath("m1") THEN "j1" ELSE "j2"

HasJellyId(st, v) == v \in DOMAIN st /\ st[v].jelly_id # None

\* get_jellyfin_unsynced(None): the items not Synced of the enabled playlists
\* with a media-server playlist whose status row is Categorized
get_jellyfin_unsynced(cfg, tbl, st) ==
    UNION {LET p == cfg[c].playlist_id
               items == tbl[p].items
           IN {[playlist_id |-> p, video_id |-> items[i].video_id,
                jelly_id |-> st[items[i].video_id].jelly_id] :
                    i \in {i \in 1..Len(items) :
                              /\ items[i].jelly_status # "Synced"
                              /\ items[i].video_id \in DOMAIN st
                              /\ st[items[i].video_id].fetch_status = "Categorized"}} :
           c \in {c \in 1..Len(cfg) : /\ cfg[c].enabled
                                      /\ cfg[c].jelly_playlist_id # None
                                      /\ HasPlaylist(tbl, cfg[c].playlist_id)}}

\* get_jellyfin_playlist_item_ids: ORDER BY position ASC, in any order the
\* rows of equal position may come
get_jellyfin_playlist_item_ids(tbl, st, p) ==
    LET items == IF HasPlaylist(tbl, p) THEN tbl[p].items ELSE <<>>
        rows == {i \in 1..Len(items) : HasJellyId(st, items[i].video_id)}
        n == Cardinality(rows)
    IN {[k \in 1..n |-> st[items[o[k]].video_id].jelly_id] :
            o \in {o \in [1..n -> rows] :
                      \A j, k \in 1..n :
                          j < k => /\ o[j] # o[k]
                                   /\ items[o[j]].position <= items[o[k]].position}}

set_jellyfin_items_to_synced(tbl, st, p) ==
    IF ~HasPlaylist(tbl, p) THEN tbl
    ELSE LET items == tbl[p].items
         IN [tbl EXCEPT ![p].items =
                [i \in 1..Len(items) |->
                    IF HasJellyId(st, items[i].video_id)
                    THEN [items[i] EXCEPT !.jelly_status = "Synced"]
                    ELSE items[i]]]

\* rebuild_cache: the cache is cleared and filled from the music tree
rebuild_cache(fs) == create_cache(fs)

\* the playlists of the loop over get_playlist_config that are not skipped
Pushed(cfg, unsynced) ==
    LET NotSkipped(list) ==
            /\ list.enabled
            /\ list.jelly_playlist_id # None
            /\ list.playlist_id \in {u.playlist_id : u \in unsynced}
    IN SelectSeq(cfg, NotSkipped)

\* the loop goes on: the next update is sent, or sync_all returns
MirrorGoOn(todo, tbl, st) ==
    IF todo = <<>> THEN {MirrorIdle}
    ELSE {[pc |-> "push", unsynced |-> {}, todo |-> todo, ids |-> ids] :
            ids \in get_jellyfin_playlist_item_ids(tbl, st, Head(todo).playlist_id)}

mirrorRest == <<remote, fetch, limiterVars, paths, otherVars, clock, ytdata, files, dirs, notes, trig, tag,
                sync, op, playlist_config, events>>

\* trigger_loop: the interval ticks; sync_all: login_jellyfin is awaited
MirrorStart ==
    /\ mirror.pc = "idle" /\ SyncParked /\ TagParked
    /\ mirror' = [MirrorIdle EXCEPT !.pc = "login"]
    /\ UNCHANGED <<mirrorRest, server, status, playlists, file_cache>>

\* login_jellyfin answers; get_jellyfin_unsynced; get_jellyfin_full_data is
\* awaited when an item has no jelly_id, the loop over the playlists starts
\* otherwise
MirrorLogin(ok) ==
    /\ mirror.pc = "login" /\ SyncParked /\ TagParked
    /\ LET unsynced == get_jellyfin_unsynced(playlist_config, playlists, status)
       IN IF ~ok \/ unsynced = {}
          THEN mirror' = MirrorIdle
          ELSE IF \E u \in unsynced : u.jelly_id = None
          THEN mirror' = [MirrorIdle EXCEPT !.pc = "full", !.unsynced = unsynced]
          ELSE mirror' \in MirrorGoOn(Pushed(playlist_config, unsynced), playlists, status)
    /\ UNCHANGED <<mirrorRest, server, status, playlists, file_cache>>

\* get_jellyfin_full_data answers with the items the server lists; the cache is
\* rebuilt and set_jellyfin_id stores the id of every item found at its path
MirrorFull(ok) ==
    /\ mirror.pc = "full" /\ SyncParked /\ TagParked
    /\ IF ~ok
       THEN /\ mirror' = MirrorIdle
            /\ UNCHANGED <<status, file_cache>>
       ELSE \E cache \in rebuild_cache(files) :
            /\ file_cache' = cache
            /\ status' =
                [v \in DOMAIN status |->
                    IF /\ \E u \in mirror.unsynced : u.video_id = v /\ u.jelly_id = None
                       /\ cache[v] # NoPath
                       /\ cache[v] \in server.listed
                    THEN [status[v] EXCEPT !.jelly_id = JellyItemId(cache[v])]
                    ELSE status[v]]
            /\ mirror' \in MirrorGoOn(Pushed(playlist_config, mirror.unsynced), playlists, status')
    /\ UNCHANGED <<mirrorRest, server, playlists>>

\* jellyfin_update_playlist answers; on success set_jellyfin_items_to_synced
MirrorPush(ok) ==
    /\ mirror.pc = "push" /\ SyncParked /\ TagParked
    /\ ok => server.updates < MaxUpdates
    /\ server' = IF ok THEN [server EXCEPT !.held = mirror.ids, !.updates = @ + 1] ELSE server
    /\ playlists' = IF ok
                    THEN set_jellyfin_items_to_synced(playlists, status, Head(mirror.todo).playlist_id)
                    ELSE playlists
    /\ mirror' \in MirrorGoOn(Tail(mirror.todo), playlists', status)
    /\ UNCHANGED <<mirrorRest, status, file_cache>>

\* the media server scans the library
ServerScan ==
    /\ server' = [server EXCEPT !.listed = {p \in LibPaths : files[p].ex}]
    /\ server' # server
    /\ UNCHANGED <<mirrorRest, mirror, status, playlists, file_cache>>

MirrorNext ==
    \/ MirrorStart \/ ServerScan
    \/ \E ok \in BOOLEAN : MirrorLogin(ok) \/ MirrorFull(ok) \/ MirrorPush(ok)

\* ------------------------------------------------------------- sign-in

Usernames == {"u1", "u2"}
Passwords == {"p1", "p2"}
Salts == {"s1", "s2"}

\* StatusCode
UNAUTHORIZED == "UNAUTHORIZED"
OK == "OK"

\* Pbkdf2.hash_password_customized: the digest of the password under the salt
Digest(password, salt) == <<password, salt>>

\* hash_password: a random salt; the stored string holds the salt and the digest
hash_password(password, salt) == [salt |-> salt, hash |-> Digest(password, salt)]

\* verify_password: the stored string is parsed and the password is digested
\* under its salt; is_ok() of the comparison
verify_password(stored, password) == Digest(password, stored.salt) = stored.hash

\* get_user: SELECT ... WHERE username = ?1, at most one row
get_user(tbl, username) ==
    IF username \in DOMAIN tbl THEN <<[username |-> username, password |-> tbl[username]]>> ELSE <<>>

\* encode_jwt: the claims that are signed; a token lives for 24 * 60 * 60 seconds
encode_jwt(email, t) == [user |-> email, iat |-> t, exp |-> t + 24 * 60 * 60]

AuthError(data, message, status_code) ==
    [username |-> data.username, password |-> data.password, status_code |-> status_code,
     message |-> message, token |-> <<>>]

\* sign_in: the user is looked up, verify_password is called on the stored
\* hash and the password of the request, and the request is refused when it
\* returns true; a token for the user is encoded otherwise
sign_in(tbl, data, t) ==
    LET user == get_user(tbl, data.username)
    IN IF user = <<>> THEN AuthError(data, "User not found", UNAUTHORIZED)
       ELSE IF verify_password(user[1].password, data.password)
       THEN AuthError(data, "Invalid password", UNAUTHORIZED)
       ELSE [username |-> data.username, password |-> data.password, status_code |-> OK,
             message |-> None, token |-> <<encode_jwt(user[1].username, t)>>]

authRest == <<coreVars, bus, socket, media, runner, db, brainz, oauth>>

\* minicli "user <user> add <password>": hash_password and add_user; the
\* INSERT of a username that exists fails and its unwrap() ends the command
AddUser(u, p, salt) ==
    /\ u \notin DOMAIN users
    /\ users' = [x \in DOMAIN users \cup {u} |-> IF x = u THEN hash_password(p, salt) ELSE users[x]]
    /\ UNCHANGED <<authRest, reply>>

\* minicli "user <user> remove": delete_user
DeleteUser(u) ==
    /\ u \in DOMAIN users
    /\ users' = [x \in DOMAIN users \ {u} |-> users[x]]
    /\ UNCHANGED <<authRest, reply>>

\* POST of the sign-in route
SignIn(u, p) ==
    /\ reply' = sign_in(users, [username |-> u, password |-> p], clock)
    /\ UNCHANGED <<authRest, users>>

AuthNext ==
    \/ \E u \in Usernames, p \in Passwords, salt \in Salts : AddUser(u, p, salt)
    \/ \E u \in Usernames : DeleteUser(u)
    \/ \E u \in Usernames, p \in Passwords : SignIn(u, p)

\* ------------------------------------------------------------- web socket

\* the rows whose change is announced
PublishedRows ==
    {[VideoStatus_new(v) EXCEPT !.fetch_status = f] : v \in Videos, f \in {"Fetched", "Categorized"}}

\* Sender::subscribe: the receiver starts behind the newest message
subscribe(sent) == Len(sent)

\* Receiver::recv on a channel of BusBuffer slots: Lagged when the next message
\* of the receiver was overwritten, and the receiver is moved to the oldest
\* message kept; the next message otherwise; recv waits on an empty channel
Lagged(sent, next) == Len(sent) - next > BusBuffer
recv(sent, next) ==
    IF Lagged(sent, next) THEN [ok |-> FALSE, msg |-> <<>>, next |-> Len(sent) - BusBuffer]
    ELSE [ok |-> TRUE, msg |-> <<sent[next + 1]>>, next |-> next + 1]

busRest == <<coreVars, users, reply, media, runner, db, brainz, oauth>>

\* push_update_notification: NOTIFY_MUSIC_UPDATE.send of the row as JSON
Publish(st) ==
    /\ Len(bus) < MaxSent
    /\ bus' = Append(bus, Message(st))
    /\ UNCHANGED <<busRest, socket>>

\* ws_handler: the first message of the client is decoded as a token; a client
\* without one is sent "Unauthorized" and the handler returns; else the
\* handler subscribes and sends the list of all videos
WsUpgrade(auth_ok) ==
    /\ socket.pc = "none"
    /\ socket' = IF auth_ok THEN [socket EXCEPT !.pc = "init", !.next = subscribe(bus)]
                 ELSE [socket EXCEPT !.pc = "closed"]
    /\ UNCHANGED <<busRest, bus>>

\* get_all_videos: the rows of the table, as they are sent
get_all_videos(tbl) == [v \in DOMAIN tbl |-> Message(tbl[v])]

\* ws_handler: the handler, subscribed, reads the list of all videos
WsList ==
    /\ socket.pc = "init" /\ socket.init_list = <<>>
    /\ socket' = [socket EXCEPT !.init_list = <<get_all_videos(status)>>]
    /\ UNCHANGED <<busRest, bus>>

\* socket.send of the initial list returns
WsInit(ok) ==
    /\ socket.pc = "init" /\ socket.init_list # <<>>
    /\ socket' = [socket EXCEPT !.pc = IF ok THEN "recv" ELSE "closed"]
    /\ UNCHANGED <<busRest, bus>>

\* rx.recv() returns: the while let loop goes on with Ok(msg) and ends with
\* any error, "Client disconnected"
WsRecv ==
    /\ socket.pc = "recv" /\ socket.next < Len(bus)
    /\ LET r == recv(bus, socket.next)
       IN socket' = IF r.ok THEN [socket EXCEPT !.pc = "send", !.next = r.next, !.sent = @ \o r.msg]
                    ELSE [socket EXCEPT !.pc = "closed", !.next = r.next]
    /\ UNCHANGED <<busRest, bus>>

\* socket.send(msg) returns: an error breaks the loop
WsSend(ok) ==
    /\ socket.pc = "send"
    /\ socket' = [socket EXCEPT !.pc = IF ok THEN "recv" ELSE "closed"]
    /\ UNCHANGED <<busRest, bus>>

WsNext ==
    \/ \E st \in PublishedRows : Publish(st)
    \/ \E auth_ok \in BOOLEAN : WsUpgrade(auth_ok)
    \/ WsList
    \/ \E ok \in BOOLEAN : WsInit(ok)
    \/ WsRecv
    \/ \E ok \in BOOLEAN : WsSend(ok)

\* ---- the writers of the rows beside a subscriber

snapRest ==
    <<clock, ytdata, files, dirs, file_cache, notes, trig, tag, sync, playlist_config, events, playlists,
      remote, fetch, limiterVars, paths, mirror, server, users, reply, media, runner, db, brainz, oauth>>

\* the states a row is stored with by push_update and push_override
WrittenStates == {"NotFetched", "Fetched", "Categorized"}

\* push_update and push_override: update_now and set_full_track_status, of a
\* new row (the insertion of sync_all) or of a row that is stored
BusPersist(v, f) ==
    /\ op.pc = "idle" /\ Len(bus) < MaxSent
    /\ v \notin Rows => f = "NotFetched"
    /\ LET st == update_now([(IF v \in Rows THEN status[v] ELSE VideoStatus_new(v)) EXCEPT !.fetch_status = f])
       IN /\ status' = set_full_track_status(status, st)
          /\ op' = [OpIdle EXCEPT !.pc = "n", !.cmd = "push", !.v = v, !.st = st]
    /\ UNCHANGED <<snapRest, bus, socket>>

\* push_update_notification: NOTIFY_MUSIC_UPDATE.send of the row that was stored
BusNotify ==
    /\ op.pc = "n"
    /\ bus' = Append(bus, Message(op.st))
    /\ op' = OpIdle
    /\ UNCHANGED <<snapRest, status, socket>>

SnapshotNext ==
    \/ \E v \in Videos, f \in WrittenStates : BusPersist(v, f)
    \/ BusNotify
    \/ \E ids \in (SUBSET Videos) \ {{}} : OpReindex(ids)
    \/ OpReindexTrigger
    \/ \E auth_ok \in BOOLEAN : WsUpgrade(auth_ok)
    \/ WsList
    \/ \E ok \in BOOLEAN : WsInit(ok)
    \/ WsRecv
    \/ \E ok \in BOOLEAN : WsSend(ok)

\* ------------------------------------------------------------- multitag

\* the extensions of the test files, one for each backend that has comments
Formats == {"mp3", "flac", "m4a", "opus"}
Keys == {"k", "O"}
CommentValues == {"a", "b"}
\* remove_comment(key, None)
NoValue == None

to_ascii_uppercase(key) == CASE key = "k" -> "K" [] key = "o" -> "O" [] OTHER -> key
to_ascii_lowercase(key) == CASE key = "K" -> "k" [] key = "O" -> "o" [] OTHER -> key

\* the name a comment of this key is kept under: the Vorbis comments of a FLAC
\* file are keyed in upper case and those of an Opus file in lower case; the
\* description of an ID3 extended text and the name of an MP4 freeform atom
\* are kept as given
FieldName(f, key) ==
    CASE f = "flac" -> to_ascii_uppercase(key)
      [] f = "opus" -> to_ascii_lowercase(key)
      [] OTHER -> key

\* a tag is the sequence of its comments <<name, value>>; the comments of
\* one name keep their order
Without(inner, name) == LET Keep(e) == e[1] # name IN SelectSeq(inner, Keep)
Under(inner, name) == LET Keep(e) == e[1] = name IN SelectSeq(inner, Keep)
ValuesOf(f, inner, key) == LET es == Under(inner, FieldName(f, key)) IN [i \in 1..Len(es) |-> es[i][2]]

\* get_comment: the first value of the key, None without one
get_comment(f, inner, key) ==
    LET vs == ValuesOf(f, inner, key) IN IF vs = <<>> THEN <<>> ELSE <<vs[1]>>

\* add_comment: Id3 add_frame puts the frame in the place of the frame of the
\* same description; VorbisFlac pushes under the upper-case key; Mp4 add_data
\* and Opus add_one append
add_comment(f, inner, key, value) ==
    CASE f = "mp3" -> Append(Without(inner, key), <<key, value>>)
      [] f = "flac" -> Append(inner, <<to_ascii_uppercase(key), value>>)
      [] f = "m4a" -> Append(inner, <<key, value>>)
      [] f = "opus" -> Append(inner, <<FieldName(f, key), value>>)

\* set_comment: Id3 calls add_comment; VorbisFlac set_vorbis and Mp4 set_data
\* put the value in the place of all values; Opus remove_entries, add_many
set_comment_AddsOnly(f, inner, key, value) == add_comment(f, inner, key, value)
set_comment(f, inner, key, value) ==
    CASE f = "mp3" -> add_comment(f, inner, key, value)
      [] f = "flac" -> Append(Without(inner, FieldName(f, key)), <<FieldName(f, key), value>>)
      [] f = "m4a" -> Append(Without(inner, key), <<key, value>>)
      [] f = "opus" -> Append(Without(inner, FieldName(f, key)), <<FieldName(f, key), value>>)

\* remove_comment: Id3 remove_extended_text; VorbisFlac remove_vorbis_pair or
\* remove_vorbis; Mp4 retain_data_of or remove_data_of; Opus remove_entries,
\* and add_many of the values that are kept
remove_comment(f, inner, key, value) ==
    LET name == FieldName(f, key)
        Keep(e) == e[1] # name \/ (value # NoValue /\ e[2] # value)
        Kept(e) == value # NoValue /\ e[2] # value
    IN CASE f = "opus" -> Without(inner, name) \o SelectSeq(Under(inner, name), Kept)
         [] OTHER -> SelectSeq(inner, Keep)

\* the names of a tag in the orders a hash map may yield them
NamesOf(inner) == {inner[i][1] : i \in 1..Len(inner)}
Orders(S) == {ord \in [1..Cardinality(S) -> S] : \A i, j \in DOMAIN ord : ord[i] = ord[j] => i = j}
RECURSIVE ByName(_, _)
ByName(inner, ord) == IF ord = <<>> THEN <<>> ELSE Under(inner, Head(ord)) \o ByName(inner, Tail(ord))

\* write_to_path: Id3v24 writes a TXXX frame for each extended text; metaflac
\* and opusmeta write a "NAME=value" comment for each value, name by name;
\* mp4ameta writes a freeform atom of mean com.apple.iTunes for each datum
write_to_path(f, inner, ord) ==
    CASE f = "mp3" -> [i \in 1..Len(inner) |-> [id |-> "TXXX", description |-> inner[i][1], text |-> inner[i][2]]]
      [] f = "m4a" -> [i \in 1..Len(inner) |-> [mean |-> "com.apple.iTunes", name |-> inner[i][1], data |-> inner[i][2]]]
      [] OTHER -> LET es == ByName(inner, ord) IN [i \in 1..Len(es) |-> <<es[i][1], "=", es[i][2]>>]

\* read_from_path: the backend is chosen by the extension; a comment of a
\* Vorbis-class file is split at the "=" and kept under its name
read_from_path(f, file) ==
    CASE f = "mp3" -> [i \in 1..Len(file) |-> <<file[i].description, file[i].text>>]
      [] f = "m4a" -> [i \in 1..Len(file) |-> <<file[i].name, file[i].data>>]
      [] OTHER -> [i \in 1..Len(file) |-> <<FieldName(f, file[i][1]), file[i][3]>>]

tagRest == <<coreVars, users, reply, bus, socket, runner, db, brainz, oauth>>

Did(name, key, value) == [op |-> name, key |-> key, value |-> value]

\* Tag::read_from_path of a test file that holds no tag
TagOpen(f) ==
    /\ media.format = None
    /\ media' = [NoMedia EXCEPT !.format = f, !.tag = read_from_path(f, <<>>)]
    /\ UNCHANGED tagRest

SetComment(key, value) ==
    /\ media.format # None
    /\ LET tag_ == set_comment(media.format, media.tag, key, value)
       IN /\ Len(tag_) <= MaxComments
          /\ media' = [media EXCEPT !.tag = tag_, !.did = Did("set", key, value)]
    /\ UNCHANGED tagRest

AddComment(key, value) ==
    /\ media.format # None
    /\ LET tag_ == add_comment(media.format, media.tag, key, value)
       IN /\ Len(tag_) <= MaxComments
          /\ media' = [media EXCEPT !.tag = tag_, !.did = Did("add", key, value)]
    /\ UNCHANGED tagRest

RemoveComment(key, value) ==
    /\ media.format # None
    /\ media' = [media EXCEPT !.tag = remove_comment(media.format, media.tag, key, value),
                              !.did = Did("remove", key, value)]
    /\ UNCHANGED tagRest

\* write_to_path after a set_comment is remembered with its key and value
WriteTag ==
    /\ media.format # None
    /\ \E ord \in Orders(NamesOf(media.tag)) :
        media' = [media EXCEPT !.file = write_to_path(media.format, media.tag, ord),
                                  !.did = IF media.did.op = "set"
                                          THEN [media.did EXCEPT !.op = "set_write"]
                                          ELSE Did("write", None, None)]
    /\ UNCHANGED tagRest

ReadTag ==
    /\ media.format # None
    /\ media' = [media EXCEPT !.tag = read_from_path(media.format, media.file),
                              !.did = IF media.did.op = "set_write"
                                      THEN [media.did EXCEPT !.op = "set_write_read"]
                                      ELSE Did("read", None, None)]
    /\ UNCHANGED tagRest

MultitagNext ==
    \/ \E f \in Formats : TagOpen(f)
    \/ \E key \in Keys, value \in CommentValues : SetComment(key, value)
    \/ \E key \in Keys, value \in CommentValues : AddComment(key, value)
    \/ \E key \in Keys, value \in CommentValues \cup {NoValue} : RemoveComment(key, value)
    \/ WriteTag
    \/ ReadTag

\* ------------------------------------------------------------- trigger_loop

\* select!: interval.tick() or trigger.recv() is ready
Ready(r) == r.due > 0 \/ r.inbox > 0

\* select! takes the branch that is ready, either one when both are, and
\* drops the other future, which takes nothing from its source
Taken_Both(r) == {[r EXCEPT !.due = IF @ > 0 THEN @ - 1 ELSE 0, !.inbox = IF @ > 0 THEN @ - 1 ELSE 0]}
Taken(r) ==
    {[r EXCEPT !.due = @ - 1] : x \in {1} \cap 1..r.due} \cup {[r EXCEPT !.inbox = @ - 1] : x \in {1} \cap 1..r.inbox}

runnerRest == <<coreVars, users, reply, bus, socket, media, db, brainz, oauth>>

\* trigger_loop is called: interval(time), whose first tick is due at once,
\* and trigger.subscribe()
LoopBegin ==
    /\ runner.pc = "new"
    /\ runner' = [runner EXCEPT !.pc = "select", !.due = 1]
    /\ UNCHANGED runnerRest

\* the period of the interval passes
LoopTimer ==
    /\ runner.pc # "new" /\ runner.due < MaxDue
    /\ runner' = [runner EXCEPT !.due = @ + 1]
    /\ UNCHANGED runnerRest

\* a send on the trigger channel, which keeps one message
LoopTrigger ==
    /\ runner.pc # "new"
    /\ runner' = [runner EXCEPT !.inbox = trigger_tagger(@)]
    /\ UNCHANGED runnerRest

\* select! returns and loop_body() is called
LoopSelect ==
    /\ runner.pc = "select" /\ Ready(runner) /\ runner.started < MaxRuns
    /\ \E r \in Taken(runner) :
        runner' = [r EXCEPT !.pc = "body", !.step = 0, !.started = @ + 1]
    /\ UNCHANGED runnerRest

\* loop_body().await is polled and the body goes on to its next await
LoopBody ==
    /\ runner.pc = "body" /\ runner.step < BodyAwaits
    /\ runner' = [runner EXCEPT !.step = @ + 1]
    /\ UNCHANGED runnerRest

\* loop_body() returns and the loop goes back to select!
LoopEnd ==
    /\ runner.pc = "body" /\ runner.step = BodyAwaits
    /\ runner' = [runner EXCEPT !.pc = "select", !.finished = @ + 1]
    /\ UNCHANGED runnerRest

LoopNext == LoopBegin \/ LoopTimer \/ LoopTrigger \/ LoopSelect \/ LoopBody \/ LoopEnd

\* ------------------------------------------------------------- migration

DB_VERSION == 2

\* the columns that the migration steps add to the tables of version 0
Columns(v) ==
    CASE v = 0 -> {}
      [] v = 1 -> {"status.last_error"}
      [] OTHER -> {"status.last_error", "status.jelly_id", "playlist_items.position",
                   "playlist_items.jelly_status"}

\* the statements of the step from version 1 to 2, in the order of run_all;
\* the users table is emptied and its password column dropped and added again
StepTwo ==
    <<[add |-> "status.jelly_id"], [add |-> "playlist_items.position"],
      [add |-> "playlist_items.jelly_status"], [add |-> None], [add |-> None], [add |-> None]>>

\* the database files an earlier run can have left: one of a release of
\* version v, with the version in the kvp table, or none
Stores ==
    {[DbClosed EXCEPT !.version = <<v>>, !.schema = Columns(v)] : v \in 0..DB_VERSION} \cup {DbClosed}

\* ALTER TABLE ... ADD COLUMN fails on a column that exists
CanAdd(schema, column) == column \notin schema

\* get_key("version").map_or(DB_VERSION, parse)
cur_ver(d) == IF d.version = <<>> THEN DB_VERSION ELSE d.version[1]

\* migrate: the ifs on new_ver, from the step that follows version n
StepFrom(n) == CASE n = 0 -> "alter" [] n = 1 -> "begin" [] OTHER -> "done"

dbRest == <<coreVars, users, reply, bus, socket, media, runner, brainz, oauth>>

\* new_at: Connection::open, the batch of CREATE TABLE IF NOT EXISTS, which
\* gives a new file the tables of the latest version; migrate reads the version
DbOpen ==
    /\ db.pc = "closed"
    /\ db' = [db EXCEPT !.pc = StepFrom(cur_ver(db)), !.new_ver = cur_ver(db),
                        !.schema = IF db.version = <<>> THEN Columns(DB_VERSION) ELSE @]
    /\ UNCHANGED dbRest

\* new_ver == 0: con.run of the ALTER TABLE, whose unwrap() panics on an error
DbAlter ==
    /\ db.pc = "alter"
    /\ db' = IF CanAdd(db.schema, "status.last_error")
             THEN [db EXCEPT !.pc = "set_key", !.new_ver = 1, !.schema = @ \cup {"status.last_error"}]
             ELSE [db EXCEPT !.pc = "panic"]
    /\ UNCHANGED dbRest

\* set_key_with_con(con, "version", new_ver), a statement of its own
DbSetKey ==
    /\ db.pc = "set_key"
    /\ db' = [db EXCEPT !.pc = StepFrom(db.new_ver), !.version = <<db.new_ver>>]
    /\ UNCHANGED dbRest

\* new_ver == 1: run_all opens a transaction
DbBegin ==
    /\ db.pc = "begin"
    /\ db' = [db EXCEPT !.pc = "statement", !.at = 1, !.new_ver = 2, !.undo = db.schema]
    /\ UNCHANGED dbRest

\* run_all: the next statement is executed, its unwrap() panics on an error
DbStatement ==
    /\ db.pc = "statement"
    /\ LET q == StepTwo[db.at]
       IN db' = IF q.add # None /\ ~CanAdd(db.schema, q.add) THEN [db EXCEPT !.pc = "panic"]
                ELSE [db EXCEPT !.pc = IF db.at = Len(StepTwo) THEN "commit" ELSE @,
                                !.at = IF db.at = Len(StepTwo) THEN 0 ELSE @ + 1,
                                !.schema = IF q.add = None THEN @ ELSE @ \cup {q.add}]
    /\ UNCHANGED dbRest

\* run_all: tx.commit()
DbCommit ==
    /\ db.pc = "commit"
    /\ db' = [db EXCEPT !.pc = "set_key", !.undo = {}]
    /\ UNCHANGED dbRest

InTransaction(d) == d.pc \in {"statement", "commit"}

\* the process ends, killed or by a panic: the file keeps what was committed,
\* an open transaction is rolled back
DbCrash ==
    /\ db.pc \notin {"closed", "done"} /\ db.crashes < MaxCrashes
    /\ db' = [db EXCEPT !.pc = "closed", !.crashes = @ + 1, !.new_ver = 0, !.undo = {}, !.at = 0,
                        !.schema = IF InTransaction(db) \/ (db.pc = "panic" /\ db.at > 0) THEN db.undo ELSE @]
    /\ UNCHANGED dbRest

MigrateNext == DbOpen \/ DbAlter \/ DbSetKey \/ DbBegin \/ DbStatement \/ DbCommit \/ DbCrash

\* ------------------------------------------------------------- brainz

\* a text is the sequence of its pieces: words, blanks and the separators
\* that the resolver looks for
Dash == " - "
Blank == " "
Comma == ","
SPLIT_REGEX == {"ft.", "ft", "feat.", "feat", ";", "&"}
Brackets == {"(", ")", "[", "]"}

to_uppercase_piece(w) ==
    CASE w \in {"nightcore", "Nightcore"} -> "NIGHTCORE"
      [] w = "a" -> "A" [] w = "b" -> "B" [] w = "t" -> "T" [] w = "u" -> "U"
      [] w = "x" -> "X" [] w = "y" -> "Y"
      [] OTHER -> w
to_uppercase(text) == [i \in 1..Len(text) |-> to_uppercase_piece(text[i])]
contains(text, w) == \E i \in 1..Len(text) : text[i] = w

\* str::split and Regex::split: the parts between all the separators
RECURSIVE split(_, _)
split(text, seps) ==
    IF \A i \in 1..Len(text) : text[i] \notin seps THEN <<text>>
    ELSE LET i == CHOOSE j \in 1..Len(text) : text[j] \in seps /\ \A k \in 1..(j - 1) : text[k] \notin seps
         IN <<SubSeq(text, 1, i - 1)>> \o split(SubSeq(text, i + 1, Len(text)), seps)

RECURSIVE trim(_)
trim(text) ==
    IF text # <<>> /\ Head(text) = Blank THEN trim(Tail(text))
    ELSE IF text # <<>> /\ text[Len(text)] = Blank THEN trim(SubSeq(text, 1, Len(text) - 1))
    ELSE text

\* String::replace(brackets, "")
replace(text, removed) == SelectSeq(text, LAMBDA w : w \notin removed)

split_artists(artist) ==
    LET parts == split(artist, SPLIT_REGEX)
    IN [i \in 1..Len(parts) |-> replace(trim(parts[i]), Brackets)]

\* QTerm: None is the empty sequence, Exact(s) the sequence of s
QTerm_None == <<>>
Exact(text) == <<text>>
exact_option(text) == IF text = <<>> THEN QTerm_None ELSE Exact(text[1])
get_text(q) == q
to_query_part(q, name) == IF q = QTerm_None THEN <<>> ELSE <<[name |-> name, quoted |-> q[1]]>>

RecordingSearch(title, artist, album) == [title |-> title, artist |-> artist, album |-> album]

\* analyze_brainz: the searches by the native music info, then by the title
NativeSearches(dlp) ==
    IF dlp.album # <<>> \/ dlp.artist # <<>>
    THEN LET names == IF dlp.artist = <<>> THEN <<>> ELSE split(dlp.artist[1], {Comma})
             artist_vec == [i \in 1..Len(names) |-> Exact(trim(names[i]))]
         IN <<RecordingSearch(Exact(dlp.title), artist_vec, exact_option(dlp.album)),
              RecordingSearch(Exact(dlp.title), artist_vec, QTerm_None)>>
    ELSE <<>>

Exacts(texts) == [i \in 1..Len(texts) |-> Exact(texts[i])]

TitleSearches(dlp) ==
    IF contains(dlp.title, Dash)
    THEN LET parts == split(dlp.title, {Dash})
         IN <<RecordingSearch(Exact(parts[2]), Exacts(split_artists(parts[1])), QTerm_None),
              RecordingSearch(Exact(parts[1]), Exacts(split_artists(parts[2])), QTerm_None)>>
    ELSE <<>>

Searches(dlp) == NativeSearches(dlp) \o TitleSearches(dlp)

\* the artist of a search names Nightcore
IsNightcore(rec_search) ==
    \E i \in 1..Len(rec_search.artist) :
        get_text(rec_search.artist[i]) # <<>>
        /\ contains(to_uppercase(get_text(rec_search.artist[i])[1]), "NIGHTCORE")

nc_match_Exact(search) ==
    IF \E i \in 1..Len(search) : \E k \in 1..Len(search[i].artist) : search[i].artist[k] = <<<<"NIGHTCORE">>>>
    THEN <<search[CHOOSE i \in 1..Len(search) :
                    \E k \in 1..Len(search[i].artist) : search[i].artist[k] = <<<<"NIGHTCORE">>>>]>>
    ELSE <<>>

\* search.iter().find(...)
nc_match(search) ==
    IF \E i \in 1..Len(search) : IsNightcore(search[i])
    THEN <<search[CHOOSE i \in 1..Len(search) : IsNightcore(search[i]) /\ \A k \in 1..(i - 1) : ~IsNightcore(search[k])]>>
    ELSE <<>>

BrainzMetadata(id, title, artist, album) ==
    [brainz_recording_id |-> id, title |-> title, artist |-> artist, album |-> album]

Synthetic(m, dlp) ==
    BrainzMetadata(<<>>, IF get_text(m.title) = <<>> THEN dlp.title ELSE get_text(m.title)[1],
                   <<"Nightcore">>, <<"Nightcore">>)

\* fetch_recordings: the parts of the query, joined, and the url
RECURSIVE ArtistParts(_)
ArtistParts(artist) ==
    IF artist = <<>> THEN <<>> ELSE to_query_part(Head(artist), "artist") \o ArtistParts(Tail(artist))
QueryOf(rec_search) ==
    to_query_part(rec_search.title, "recording") \o ArtistParts(rec_search.artist)
        \o to_query_part(rec_search.album, "release")
UrlOfId(trackid) == <<[name |-> "rid", quoted |-> <<trackid>>]>>

\* the url that the call is at: of the recording id, or of the search it tries
UrlAt(b) == IF b.dlp[1].trackid # <<>> THEN UrlOfId(b.dlp[1].trackid[1]) ELSE QueryOf(b.search[b.at])

\* the bodies that the service sends, and what serde_json and recordings.get_mut(0) make of them
Bodies == {"recording", "empty", "garbage"}
Parsed(url, body) ==
    CASE body = "recording" -> [ok |-> TRUE, value |-> BrainzMetadata(<<url>>, <<"rec">>, <<"by">>, <<>>)]
      [] body = "empty" -> [ok |-> FALSE, value |-> "EmptyResult"]
      [] OTHER -> [ok |-> FALSE, value |-> "JsonError"]

Cached(b, url) == {c \in b.cache : c.query = url}

Outcome_NoBreak(b, res) ==
    IF b.dlp[1].trackid # <<>> \/ (res.ok /\ b.at = Len(b.search))
    THEN [b EXCEPT !.pc = "returned", !.ret = <<res>>, !.text = <<>>]
    ELSE IF b.at < Len(b.search)
    THEN [b EXCEPT !.pc = "lookup", !.at = @ + 1, !.text = <<>>]
    ELSE [b EXCEPT !.pc = "returned", !.ret = <<[ok |-> FALSE, value |-> "EmptyResult"]>>, !.text = <<>>]

\* the outcome of fetch_recordings reaches analyze_brainz: the result by id
\* is returned as it is, the first Ok of the searches wins, the errors of the
\* searches end in EmptyResult
Outcome(b, res) ==
    IF b.dlp[1].trackid # <<>> \/ res.ok
    THEN [b EXCEPT !.pc = "returned", !.ret = <<res>>, !.text = <<>>]
    ELSE IF b.at < Len(b.search)
    THEN [b EXCEPT !.pc = "lookup", !.at = @ + 1, !.text = <<>>]
    ELSE [b EXCEPT !.pc = "returned", !.ret = <<[ok |-> FALSE, value |-> "EmptyResult"]>>, !.text = <<>>]

\* the queries the tagger and the operator hand to analyze_brainz
Dlp(trackid, title, artist, album) == [trackid |-> trackid, title |-> title, artist |-> artist, album |-> album]
Dlps ==
    {Dlp(<<>>, title, <<>>, <<>>) :
        title \in {<<"t">>, <<"a", Dash, "t">>, <<"a", Blank, "ft.", Blank, "b", Dash, "t">>,
                   <<"a", Dash, "t", Dash, "u">>, <<"Nightcore", Dash, "t">>,
                   <<"t", Dash, "(", "nightcore", ")">>}}
    \cup {Dlp(<<>>, <<"t">>, <<<<"x", Comma, Blank, "y">>>>, <<<<"al">>>>),
          Dlp(<<>>, <<"a", Dash, "t">>, <<<<"x">>>>, <<>>),
          Dlp(<<>>, <<"t">>, <<<<"nightcore", Blank, "x">>>>, <<>>),
          Dlp(<<"id">>, <<"Nightcore", Dash, "t">>, <<>>, <<>>)}

brainzRest == <<coreVars, users, reply, bus, socket, media, runner, db, oauth>>

\* analyze_brainz up to its first fetch
BrainzCall(dlp) ==
    /\ brainz.pc \in {"idle", "returned"} /\ brainz.calls < MaxQueries
    /\ LET search == Searches(dlp)
           b == [brainz EXCEPT !.dlp = <<dlp>>, !.search = search, !.asked = <<>>, !.ret = <<>>, !.at = 0,
                               !.gets = 0, !.waits = 0, !.sends = 0, !.sets = 0, !.calls = @ + 1]
       IN brainz' = IF dlp.trackid # <<>> THEN [b EXCEPT !.pc = "lookup"]
                    ELSE IF nc_match(search) # <<>>
                    THEN [b EXCEPT !.pc = "returned",
                                   !.ret = <<[ok |-> TRUE, value |-> Synthetic(nc_match(search)[1], dlp)]>>]
                    ELSE IF search = <<>>
                    THEN [b EXCEPT !.pc = "returned", !.ret = <<[ok |-> FALSE, value |-> "EmptyResult"]>>]
                    ELSE [b EXCEPT !.pc = "lookup", !.at = 1]
    /\ UNCHANGED brainzRest

\* fetch_recordings_url: DB.try_get_brainz(&url)
BrainzLookup ==
    /\ brainz.pc = "lookup"
    /\ LET url == UrlAt(brainz)
           b == [brainz EXCEPT !.gets = @ + 1, !.asked = Append(@, url)]
       IN brainz' = IF Cached(brainz, url) # {}
                    THEN Outcome(b, Parsed(url, (CHOOSE c \in Cached(brainz, url) : TRUE).data))
                    ELSE [b EXCEPT !.pc = "wait"]
    /\ UNCHANGED brainzRest

\* LIMITER.wait_for_next_fetch().await
BrainzWait ==
    /\ brainz.pc = "wait"
    /\ brainz' = [brainz EXCEPT !.pc = "send", !.waits = @ + 1]
    /\ UNCHANGED brainzRest

\* CLIENT.get(&url).send().await? and response.text().await?: an error of the
\* connection, 503 and another round after RATE_LIMIT_WAIT, or a body
BrainzSend(answer) ==
    /\ brainz.pc = "send"
    /\ answer = "503" => brainz.sends - brainz.waits < MaxUnavailable
    /\ LET b == [brainz EXCEPT !.sends = @ + 1]
       IN brainz' = CASE answer = "ConnectionError" -> Outcome(b, [ok |-> FALSE, value |-> "ConnectionError"])
                      [] answer = "503" -> b
                      [] OTHER -> [b EXCEPT !.pc = "store", !.text = <<answer>>]
    /\ UNCHANGED brainzRest

\* DB.set_brainz(&url, &text), serde_json::from_str, recordings.get_mut(0)
BrainzStore ==
    /\ brainz.pc = "store"
    /\ LET url == UrlAt(brainz)
           b == [brainz EXCEPT !.sets = @ + 1,
                               !.cache = (@ \ Cached(brainz, url)) \cup {[query |-> url, data |-> brainz.text[1]]}]
       IN brainz' = Outcome(b, Parsed(url, brainz.text[1]))
    /\ UNCHANGED brainzRest

BrainzNext ==
    \/ \E dlp \in Dlps : BrainzCall(dlp)
    \/ BrainzLookup
    \/ BrainzWait
    \/ \E answer \in Bodies \cup {"503", "ConnectionError"} : BrainzSend(answer)
    \/ BrainzStore

\* ------------------------------------------------------------- get_auth

\* the sleep after the answer slow_down
slow_down_wait == 10

\* the answers of the token endpoint to a poll: an error of the connection or
\* of the decoding, YtTokenResponse::Error with its error, Success with or
\* without a refresh_token
TokenAnswers ==
    {"ConnectionError", "authorization_pending", "slow_down", "expired_token", "access_denied",
     "invalid_request", "success", "success_without_refresh"}

AuthData(t, token_expires_in) == [access_token |-> "at", expires_at |-> t + token_expires_in, refresh_token |-> "rt"]

oauthRest == <<coreVars, users, reply, bus, socket, media, runner, db, brainz>>

\* get_auth with no stored credentials: the request of the device code, which
\* fails or gives expires_in and interval; the time runs from its answer
AuthBegin(ok, expires_in, interval) ==
    /\ oauth.pc = "idle" /\ oauth.stored = <<>>
    /\ oauth' = IF ok THEN [oauth EXCEPT !.pc = "check", !.expires_in = expires_in, !.interval = interval]
                ELSE [oauth EXCEPT !.pc = "returned", !.ret = "ConnectionError"]
    /\ UNCHANGED oauthRest

\* while chrono::Utc::now() < timeout, and the return after the loop
AuthCheck ==
    /\ oauth.pc = "check"
    /\ oauth' = IF oauth.t < oauth.expires_in THEN [oauth EXCEPT !.pc = "sleep"]
                ELSE [oauth EXCEPT !.pc = "returned", !.ret = "AuthTimeExceeded"]
    /\ UNCHANGED oauthRest

\* tokio::time::sleep(interval).await
AuthSleep ==
    /\ oauth.pc = "sleep"
    /\ oauth' = [oauth EXCEPT !.pc = "post", !.t = @ + oauth.interval]
    /\ UNCHANGED oauthRest

\* the poll of the token endpoint and the match on its answer, which arrives
\* after took seconds
AuthPoll(answer, took) ==
    /\ oauth.pc = "post" /\ oauth.polls < MaxPolls
    /\ LET o == [oauth EXCEPT !.t = @ + took, !.polls = @ + 1, !.polled_at = oauth.t]
       IN oauth' =
            CASE answer = "ConnectionError" -> [o EXCEPT !.pc = "returned", !.ret = "ConnectionError"]
              [] answer = "authorization_pending" -> [o EXCEPT !.pc = "check"]
              [] answer = "slow_down" -> [o EXCEPT !.pc = "slow_down"]
              [] answer = "expired_token" -> [o EXCEPT !.pc = "returned", !.ret = "AuthTimeExceeded"]
              [] answer = "access_denied" -> [o EXCEPT !.pc = "returned", !.ret = "AuthRejected"]
              [] answer = "success" ->
                    [o EXCEPT !.pc = "returned", !.ret = "Ok", !.stored = <<AuthData(o.t, 1)>>]
              [] answer = "success_without_refresh" -> [o EXCEPT !.pc = "returned", !.ret = "MissingRefreshToken"]
              [] OTHER -> [o EXCEPT !.pc = "check"]
    /\ UNCHANGED oauthRest

\* slow_down: tokio::time::sleep(10 s).await; continue
AuthSlowDown ==
    /\ oauth.pc = "slow_down"
    /\ oauth' = [oauth EXCEPT !.pc = "check", !.t = @ + slow_down_wait]
    /\ UNCHANGED oauthRest

AuthDeviceNext ==
    \/ \E ok \in BOOLEAN, expires_in \in 1..MaxExpires, interval \in 0..MaxInterval :
            AuthBegin(ok, expires_in, interval)
    \/ AuthCheck
    \/ AuthSleep
    \/ \E answer \in TokenAnswers, took \in 0..MaxTook : AuthPoll(answer, took)
    \/ AuthSlowDown

\* ------------------------------------------------------------- specification
Next == Tick \/ TaggerNext \/ OperatorNext \/ SyncNext

\* one configured playlist, of one item
Spec == Init /\ [][Next]_vars

\* the loops alone: no operator request arrives
NextLoops == Tick \/ TaggerNext \/ SyncNext
SpecLoops == Init /\ [][NextLoops]_vars

\* the loops and the operator within one second of the clock
NextSecond == TaggerNext \/ OperatorNext \/ SyncNext
SpecSecond == Init /\ [][NextSecond]_vars

\* two configured playlists that share an item; no operator request arrives
InitLists ==
    /\ paths = MsPaths_default
    /\ clock = 0
    /\ status = [v \in {} |-> VideoStatus_new(v)]
    /\ ytdata = {}
    /\ files = [p \in FilePaths |-> NoFile]
    /\ dirs = {MusicBase, TempBase}
    /\ file_cache = [v \in Videos |-> NoPath]
    /\ notes = Message(VideoStatus_new(None))
    /\ trig = 0
    /\ tag = TagIdle
    /\ sync = SyncIdle
    /\ op = OpIdle
    /\ playlist_config = <<PlaylistConfig_new("p1"), PlaylistConfig_new("p2")>>
    /\ events = 0
    /\ playlists = NoPlaylists
    /\ remote = [p \in PlaylistIds |-> RemoteOf(p)]
    /\ fetch = FetchIdle
    /\ now = 0
    /\ times = Limiter_new
    /\ callers = [c \in Callers |-> CallerIdle]
    /\ log = NoCalls
    /\ InitJelly
    /\ InitOther
SpecLists == InitLists /\ [][NextLoops]_vars

\* one configured playlist, disabled; no operator request arrives
InitDisabled ==
    /\ paths = MsPaths_default
    /\ clock = 0
    /\ status = [v \in {} |-> VideoStatus_new(v)]
    /\ ytdata = {}
    /\ files = [p \in FilePaths |-> NoFile]
    /\ dirs = {MusicBase, TempBase}
    /\ file_cache = [v \in Videos |-> NoPath]
    /\ notes = Message(VideoStatus_new(None))
    /\ trig = 0
    /\ tag = TagIdle
    /\ sync = SyncIdle
    /\ op = OpIdle
    /\ playlist_config = <<[PlaylistConfig_new("p1") EXCEPT !.enabled = FALSE]>>
    /\ events = 0
    /\ playlists = NoPlaylists
    /\ remote = [p \in PlaylistIds |-> RemoteOf(p)]
    /\ fetch = FetchIdle
    /\ now = 0
    /\ times = Limiter_new
    /\ callers = [c \in Callers |-> CallerIdle]
    /\ log = NoCalls
    /\ InitJelly
    /\ InitOther
SpecDisabled == InitDisabled /\ [][NextLoops]_vars

\* one limiter and the tasks that wait on it; the loops idle
SpecLimiter == Init /\ [][LimiterNext]_vars

\* get_playlist called again and again for one playlist that is edited at the
\* provider, the process stopped at any statement of set_playlist; the loops idle
NextList == Minute \/ RemoteEdit \/ ListNext
SpecList == Init /\ [][NextList]_vars

\* ---- the loops under the scheduling of the task that runs them: a loop that
\* is ready again and again is polled, the calls of the playlist sync return;
\* the interval of the tagger need not tick
TaggerSteps ==
    \/ TagTriggered \/ TagPassEnd
    \/ \E v \in Videos : TagRead(v)
    \/ TagGetMeta \/ ExtractorOk \/ ExtractorErr \/ TagSetDlp \/ TagTryMeta
    \/ TagPushWrite \/ TagPushNotify \/ TagOvrResult \/ TagOvrQuery
    \/ \E m \in Metas : ResolveOk(m)
    \/ ResolveErr
    \/ \E how \in FileOutcomes : TagFiles(how)
NextFair == TaggerNext \/ SyncNext
SpecFair == InitLists /\ [][NextFair]_vars /\ SF_vars(TaggerSteps) /\ WF_vars(SyncNext)

\* ---- the state in which nothing but the database, the resolver and the
\* provider's sign-in has a value of its own
InitQuiet ==
    /\ paths = MsPaths_default
    /\ clock = 0
    /\ status = [v \in {} |-> VideoStatus_new(v)]
    /\ ytdata = {}
    /\ files = [p \in FilePaths |-> NoFile]
    /\ dirs = {MusicBase, TempBase}
    /\ file_cache = [v \in Videos |-> NoPath]
    /\ notes = Message(VideoStatus_new(None))
    /\ trig = 0
    /\ tag = TagIdle
    /\ sync = SyncIdle
    /\ op = OpIdle
    /\ playlist_config = <<PlaylistConfig_new("p1")>>
    /\ events = 0
    /\ playlists = NoPlaylists
    /\ remote = [p \in PlaylistIds |-> RemoteOf(p)]
    /\ fetch = FetchIdle
    /\ now = 0
    /\ times = Limiter_new
    /\ callers = [c \in Callers |-> CallerIdle]
    /\ log = NoCalls
    /\ InitJelly
    /\ users = NoUsers
    /\ reply = NoReply
    /\ bus = <<>>
    /\ socket = SocketNew
    /\ media = NoMedia
    /\ runner = RunnerNew

\* ---- the start of the program on a database file of any release
InitMigrate == InitQuiet /\ db \in Stores /\ brainz = BrainzIdle /\ oauth = OauthIdle
SpecMigrate == InitMigrate /\ [][MigrateNext]_vars

\* ---- the resolver called with the queries of the tagger and the operator
InitBrainz == InitQuiet /\ db = DbClosed /\ brainz = BrainzIdle /\ oauth = OauthIdle
SpecBrainz == InitBrainz /\ [][BrainzNext]_vars

\* ---- get_auth on a store without credentials
SpecDevice == InitBrainz /\ [][AuthDeviceNext]_vars

\* ---- a subscriber of the update bus beside the writers of the rows
SpecSnapshot == Init /\ [][SnapshotNext]_vars

\* ---- the file operations under the configurations main accepts
\* main creates the music, temp and migrate directories it is configured with
\* and does not compare them: temp may lie below music
PathConfigs ==
    {MsPaths_default,
     [music |-> <<"music">>, temp |-> <<"music", "tmp">>, migrate |-> NoPath],
     [music |-> <<"music">>, temp |-> <<"temp">>, migrate |-> <<"old">>]}

\* a file that lies below no base path, and its directory
OutsidePath == <<"etc", "f">>

Ancestors(p) == {SubSeq(p, 1, k) : k \in 1..(Len(p) - 1)}

InitFiles ==
    /\ paths \in PathConfigs
    /\ clock = 0
    /\ status = [v \in {} |-> VideoStatus_new(v)]
    /\ ytdata = {}
    /\ files \in [FilePaths \cup {OutsidePath} -> {NoFile, RawFile}]
    /\ dirs = get_base_paths
                \cup UNION {Ancestors(b) : b \in get_base_paths}
                \cup UNION {Ancestors(p) : p \in {q \in DOMAIN files : files[q].ex}}
                \cup Ancestors(OutsidePath)
    /\ file_cache = [v \in Videos |-> NoPath]
    /\ notes = Message(VideoStatus_new(None))
    /\ trig = 0
    /\ tag = TagIdle
    /\ sync = SyncIdle
    /\ op = OpIdle
    /\ playlist_config = <<PlaylistConfig_new("p1")>>
    /\ events = 0
    /\ playlists = NoPlaylists
    /\ remote = [p \in PlaylistIds |-> RemoteOf(p)]
    /\ fetch = FetchIdle
    /\ now = 0
    /\ times = Limiter_new
    /\ callers = [c \in Callers |-> CallerIdle]
    /\ log = NoCalls
    /\ InitJelly
    /\ InitOther

filesVars == <<clock, status, ytdata, file_cache, notes, trig, tag, sync, op, playlist_config, events,
               playlists, sideVars>>

\* delete_file(path): remove_file succeeds only on a file that exists
DeleteFile ==
    \E path \in DOMAIN files \cup get_base_paths, os_ok \in BOOLEAN :
        /\ os_ok => path \in DOMAIN files /\ files[path].ex
        /\ LET r == delete_file(files, dirs, path, os_ok)
           IN /\ files' = r.files
              /\ dirs' = r.dirs
        /\ UNCHANGED filesVars

\* move_file_to_library from create_dir_all on, for a file find_file returned
MoveFile ==
    \E path \in FilePaths, m \in Metas, how \in {"rename", "copy", "copy_nodel", "fail"} :
        /\ files[path].ex
        /\ path = DestPath(m) => how = "rename"
        /\ LET r == move_file(files, create_dir_all(dirs, m), path, DestPath(m), how)
           IN /\ files' = r.files
              /\ dirs' = r.dirs
        /\ UNCHANGED filesVars

NextFiles == DeleteFile \/ MoveFile
SpecFiles == InitFiles /\ [][NextFiles]_vars

\* ---- the loops over a playlist that may hold a video more than once
InitDuplicates ==
    /\ paths = MsPaths_default
    /\ clock = 0
    /\ status = [v \in {} |-> VideoStatus_new(v)]
    /\ ytdata = {}
    /\ files = [p \in FilePaths |-> NoFile]
    /\ dirs = {MusicBase, TempBase}
    /\ file_cache = [v \in Videos |-> NoPath]
    /\ notes = Message(VideoStatus_new(None))
    /\ trig = 0
    /\ tag = TagIdle
    /\ sync = SyncIdle
    /\ op = OpIdle
    /\ playlist_config = <<PlaylistConfig_new("p1")>>
    /\ events = 0
    /\ playlists = NoPlaylists
    /\ \E items \in {<<"v1">>, <<"v1", "v2">>, <<"v1", "v1">>, <<"v2", "v1", "v2">>} :
        remote = [p \in PlaylistIds |->
                    IF p = FetchedPlaylist
                    THEN [etag |-> "e1", total_results |-> Len(items), items |-> items]
                    ELSE RemoteOf(p)]
    /\ fetch = FetchIdle
    /\ now = 0
    /\ times = Limiter_new
    /\ callers = [c \in Callers |-> CallerIdle]
    /\ log = NoCalls
    /\ InitJelly
    /\ InitOther

SpecDuplicates == InitDuplicates /\ [][NextLoops]_vars

\* ---- the mirror loop beside the playlist sync loop
\* both videos are Categorized, v1 as m1 and v2 as m2; the playlist with the
\* media-server playlist jp1 was stored a moment ago; some of the videos were
\* given their jelly_id by an earlier pass, and the server lists at least those
InitMirror ==
    /\ paths = MsPaths_default
    /\ clock = 0
    /\ \E given \in SUBSET Videos, items \in {<<"v1">>, <<"v1", "v2">>} :
        LET result == [v \in Videos |-> IF v = "v1" THEN "m1" ELSE "m2"]
            r == [etag |-> "e1", total_results |-> Len(items), items |-> items]
        IN /\ status = [v \in Videos |->
                          [VideoStatus_new(v) EXCEPT
                              !.fetch_status = "Categorized", !.fetch_time = 0, !.last_update = 0,
                              !.last_query = "dlp", !.last_result = result[v],
                              !.jelly_id = IF v \in given THEN JellyItemId(DestPath(result[v]))
                                           ELSE None]]
           /\ files = [p \in FilePaths |->
                          IF \E v \in Videos : p = DestPath(result[v])
                          THEN Tagged(CHOOSE v \in Videos : p = DestPath(result[v]),
                                      result[CHOOSE v \in Videos : p = DestPath(result[v])])
                          ELSE NoFile]
           /\ file_cache = [v \in Videos |-> DestPath(result[v])]
           /\ remote = [p \in PlaylistIds |-> IF p = FetchedPlaylist THEN r ELSE RemoteOf(p)]
           /\ playlists = get_playlist(NoPlaylists, r, FetchedPlaylist).table
           /\ server \in {[ServerNew EXCEPT !.listed = l] :
                            l \in {l \in SUBSET LibPaths :
                                      \A v \in given : DestPath(result[v]) \in l}}
    /\ ytdata = Videos
    /\ dirs = create_dir_all(create_dir_all({MusicBase, TempBase}, "m1"), "m2")
    /\ notes = Message(VideoStatus_new(None))
    /\ trig = 0
    /\ tag = TagIdle
    /\ sync = SyncIdle
    /\ op = OpIdle
    /\ playlist_config = <<[PlaylistConfig_new(FetchedPlaylist) EXCEPT !.jelly_playlist_id = "jp1"]>>
    /\ events = 0
    /\ fetch = FetchIdle
    /\ now = 0
    /\ times = Limiter_new
    /\ callers = [c \in Callers |-> CallerIdle]
    /\ log = NoCalls
    /\ InitOther
    /\ mirror = MirrorIdle

NextMirror == MirrorNext \/ SyncNext \/ RemoteEdit \/ Minute
SpecMirror == InitMirror /\ [][NextMirror]_vars

\* ---- the sign-in route beside the user commands
SpecAuth == Init /\ [][AuthNext]_vars

\* ---- a web socket client beside the senders of the bus
SpecSocket == Init /\ [][WsNext]_vars

\* ---- the comments of a tag of each backend
SpecTags == Init /\ [][MultitagNext]_vars

\* ---- one loop, its interval and the senders of its trigger
SpecRunner == Init /\ [][LoopNext]_vars

\* ------------------------------------------------------------- properties
\* the files whose embedded youtube_id comment is v
FilesOf(v) == {p \in FilePaths : files[p].ex /\ files[p].yid = v}

\* C1: for every item whose stored state is Categorized there is exactly one
\* file whose embedded youtube_id is the item's id; stated here for the runs in
\* which no file operation has failed.
C1_OneFilePerCategorized ==
    events = 0 =>
        \A v \in Rows :
            status[v].fetch_status = "Categorized" => Cardinality(FilesOf(v)) = 1

\* the tagger leaves the acquisition of a NotFetched item with a row to push
AcquireReturnsOk == tag.pc \in {"get_meta", "set_dlp"} /\ tag'.pc = "push_w"
AcquireReturnsErr == tag.pc = "fetching" /\ tag'.pc = "push_w"
\* the tagger pushes the row that acquisition left
AcquirePush == tag.pc \in {"push_w", "push_n"} /\ tag.st.fetch_status \in {"Fetched", "FetchError"}
                   /\ tag.cont \in {"ovr_result", "next"} /\ tag' # tag

\* C2: for an item read as NotFetched, a successful acquisition makes the row
\* Fetched with fetch_time the current time, the row is persisted and the
\* metadata step follows in the same pass; a failed acquisition makes the row
\* FetchError with last_error set, the row is persisted and the pass goes on
\* with the next item without a metadata step.
C2_Acquisition ==
    [][ /\ AcquireReturnsOk =>
            /\ tag.st.fetch_status = "NotFetched"
            /\ tag'.st = [tag.st EXCEPT !.fetch_status = "Fetched", !.fetch_time = clock,
                                        !.last_update = clock]
            /\ tag'.cont = "ovr_result" /\ tag'.cur = tag.cur
        /\ AcquireReturnsErr =>
            /\ tag.st.fetch_status = "NotFetched"
            /\ tag'.st.fetch_status = "FetchError" /\ tag'.st.last_error # None
            /\ tag'.cont = "next" /\ tag'.cur = tag.cur
        /\ AcquirePush /\ tag.pc = "push_w" =>
            /\ status'[tag.cur] = tag.st
            /\ tag' = [tag EXCEPT !.pc = "push_n"]
        /\ AcquirePush /\ tag.pc = "push_n" /\ tag.st.fetch_status = "Fetched" =>
            /\ tag.cont = "ovr_result"
            /\ tag'.pc = "ovr_result" /\ tag'.cur = tag.cur /\ tag'.st = tag.st
        /\ AcquirePush /\ tag.pc = "push_n" /\ tag.st.fetch_status = "FetchError" =>
            /\ tag.cont = "next"
            /\ tag'.pc = "next" /\ tag'.cur = None
      ]_vars

\* an acquisition that succeeded at second 1 is stored and the metadata step began
C2_Witness ==
    /\ tag.pc = "ovr_result" /\ tag.cur \in Rows
    /\ status[tag.cur].fetch_status = "Fetched"
    /\ status[tag.cur].fetch_time = 1
    /\ status[tag.cur].last_update = 1

\* C3: an item stored as BrainzError (the resolver failed) keeps that state and
\* enters the queue of no tagger pass as long as no operator request arrives.
C3_ResolveErrorStays ==
    [][ \A v \in Rows :
            status[v].fetch_status = "BrainzError" =>
                /\ status'[v].fetch_status = "BrainzError"
                /\ v \in tag'.queue => v \in tag.queue
      ]_vars

\* C4: in the metadata step a stored override_result is used verbatim and the
\* resolver is not called; without one, a stored override_query is the query
\* the resolver is called with; the resolver is called from nowhere else, and
\* the tags written are the metadata the step ended with.
C4_OverridesDecide ==
    [][ /\ tag.pc = "ovr_result" /\ tag' # tag =>
            IF status[tag.cur].override_result # None
            THEN /\ tag'.res = status[tag.cur].override_result
                 /\ tag'.pc = "push_w" /\ tag'.cont = "files"
            ELSE tag'.pc = "ovr_query" /\ tag'.res = None
        /\ tag.pc = "ovr_query" /\ tag' # tag =>
            /\ tag'.pc = "resolving"
            /\ status[tag.cur].override_query # None =>
                   tag'.query = status[tag.cur].override_query
        /\ tag'.pc = "resolving" /\ tag.pc # "resolving" => tag.pc = "ovr_query"
        /\ tag.pc \in {"push_w", "push_n"} /\ tag.cont = "files" /\ tag' # tag =>
            /\ tag'.res = tag.res
            /\ tag'.pc \in {"push_n", "files"}
        /\ tag.pc = "files" =>
            \A p \in FilePaths :
                files'[p] # files[p] /\ files'[p].ex => files'[p] = Tagged(tag.cur, tag.res)
      ]_vars

\* the metadata step took the override m2 of an item the resolver had answered
\* m1 for, and the file is about to be tagged
C4_Witness ==
    /\ tag.pc = "files" /\ tag.cur \in Rows
    /\ status[tag.cur].override_result = "m2"
    /\ status[tag.cur].last_result = "m1"
    /\ tag.res = "m2"

\* a step of the tagger loop
TaggerStep == tag' # tag

\* C5: the tagger never changes the stored row of an item whose stored state
\* is FetchError, Categorized or Disabled.
C5_TaggerSkips ==
    [][ \A v \in Rows :
            TaggerStep /\ status[v].fetch_status \in {"FetchError", "Categorized", "Disabled"}
                => status'[v] = status[v]
      ]_vars

\* the tagger has read the row of tag.cur and a write of that row is still to come
TaggerHoldsRow ==
    \/ tag.pc \in {"get_meta", "fetching", "set_dlp", "try_meta", "ovr_result",
                    "ovr_query", "resolving", "push_w"}
    \/ tag.pc = "push_n" /\ tag.cont \in {"again", "ovr_result"}

\* C6: between the tagger's read of a row and its last write of that row no
\* other task writes the row.
C6_RowSerialized ==
    [][ TaggerHoldsRow /\ ~TaggerStep => status'[tag.cur] = status[tag.cur] ]_vars

\* the operator request being served is a result override of an item that was
\* Categorized when the handler read it
ResultOnCategorized == op.cmd = "result" /\ op.was = "Categorized" /\ op.arg # None

\* C7: a result override posted for a Categorized item is persisted as state
\* Fetched with the (trimmed) override_result, and the tagger is triggered; a
\* pass over a Fetched item with cached extractor metadata reaches the
\* metadata step; with a file found and the file operations succeeding the
\* file carries the tags of the metadata step's result at its destination and
\* nowhere else, and the item is persisted as Categorized with last_error null.
C7_ResultOverride ==
    [][ /\ ResultOnCategorized /\ op.pc = "w" /\ op' # op =>
            /\ status'[op.v].fetch_status = "Fetched"
            /\ status'[op.v].override_result = cleaned_result(op.arg)
            /\ op'.pc = "n"
        /\ ResultOnCategorized /\ op.pc = "n" /\ op' # op =>
            trig' > 0 /\ trig' = trigger_tagger(trig)
        /\ tag.pc = "next" /\ tag'.pc # "next" /\ tag'.cur \in Rows
                /\ status[tag'.cur].fetch_status = "Fetched" =>
            tag'.pc = "try_meta" /\ tag'.st = status[tag'.cur]
        /\ tag.pc = "try_meta" /\ tag.cur \in ytdata /\ TaggerStep =>
            tag'.pc = "ovr_result"
        /\ tag.pc = "files" /\ tag'.pc = "push_w" =>
            /\ files'[DestPath(tag.res)] = Tagged(tag.cur, tag.res)
            /\ Parent(DestPath(tag.res)) \in dirs'
            /\ LET found == {f.path : f \in find_file(files, file_cache, tag.cur)}
                   removed == {p \in FilePaths \ {DestPath(tag.res)} :
                                   files[p].ex /\ ~files'[p].ex}
               IN /\ \A p \in FilePaths \ {DestPath(tag.res)} :
                         files'[p] = files[p] \/ p \in removed
                  /\ removed \subseteq found /\ Cardinality(removed) <= 1
                  /\ removed = {} => DestPath(tag.res) \in found
            /\ file_cache'[tag.cur] = DestPath(tag.res)
            /\ tag'.st = [tag.st EXCEPT !.fetch_status = "Categorized", !.last_error = None,
                                        !.last_update = clock]
            /\ tag'.cont = "next"
        /\ tag.pc = "push_w" /\ tag.st.fetch_status = "Categorized" /\ TaggerStep =>
            status'[tag.cur] = tag.st
      ]_vars

\* the item the resolver had answered m1 for is Categorized again under the
\* override m2: its file is at the destination of m2 with the tags of m2
C7_Witness ==
    \E v \in Rows :
        /\ status[v].fetch_status = "Categorized"
        /\ status[v].override_result = "m2"
        /\ status[v].last_result = "m1"
        /\ status[v].last_error = None
        /\ files[DestPath("m2")] = Tagged(v, "m2")
        /\ ~files[DestPath("m1")].ex
        /\ Parent(DestPath("m1")) \notin dirs /\ Parent(DestPath("m2")) \in dirs

\* the delete request being served has persisted its row
DeletePersisted(v) == op.cmd = "delete" /\ op.pc = "n" /\ op.v = v

\* C8: when a delete of an item has been persisted, no file of the item is on
\* disk (neither the download in temp nor a file carrying its id), every
\* directory below a base directory has an entry, the base directories exist,
\* the stored state is Disabled and a tagger pass that starts now does not
\* select the item.
C8_Deleted ==
    \A v \in Rows :
        DeletePersisted(v) =>
            /\ ~files[TempPath(v)].ex
            /\ FilesOf(v) = {}
            /\ \A d \in dirs \ get_base_paths : Entries(files, dirs, d) # {}
            /\ get_base_paths \subseteq dirs
            /\ status[v].fetch_status = "Disabled"
            /\ v \notin get_all_unprocessed_ids

\* C9: the stored last_update of an item never decreases.
C9_LastUpdateMonotone ==
    [][ \A v \in Rows : status'[v].last_update >= status[v].last_update ]_vars

\* a writer has persisted row st and its next step sends st on the update bus
NotificationOwed(st) ==
    \/ tag'.pc = "push_n" /\ tag'.st = st
    \/ sync'.pc = "push_n" /\ sync'.st = st
    \/ op'.pc = "n" /\ op'.st = st

\* C10: a step that changes the stored state of an item (or creates its row)
\* leaves its writer about to send the stored row on the update bus, and that
\* next step of the writer sends it.
C10_ChangeAnnounced ==
    [][ /\ \A v \in DOMAIN status' :
               (v \notin Rows \/ status'[v].fetch_status # status[v].fetch_status)
                   => NotificationOwed(status'[v])
        /\ tag.pc = "push_n" /\ TaggerStep => notes' = Message(tag.st)
        /\ sync.pc = "push_n" /\ sync' # sync => notes' = Message(sync.st)
        /\ op.pc = "n" /\ op' # op => notes' = Message(op.st)
      ]_vars
\* the video ids of the PlaylistItems of the stored playlist p
StoredVideos(p) == {playlists[p].items[i].video_id : i \in 1..Len(playlists[p].items)}

\* C11: for every PlaylistItem of a stored Playlist an Item row with that video
\* id exists, in every state, the states between the rewrite of the playlist
\* and the insertion of its Items included.
C11_ItemsHaveRows ==
    \A p \in DOMAIN playlists : StoredVideos(p) \subseteq Rows

\* sync_all's push_update reaches the store
SyncInserts == sync.pc = "push_w" /\ sync'.pc = "push_n"

\* C12: playlist sync inserts a new NotFetched Item only for a playlist item
\* that has no Item row at the moment of the insert; it never overwrites an
\* existing row, whatever the tagger has written while a fetch was awaited.
C12_SyncOnlyInserts ==
    [][SyncInserts =>
            /\ sync.st.video_id \notin Rows
            /\ status'[sync.st.video_id].fetch_status = "NotFetched"
            /\ status'[sync.st.video_id].last_query = "pl"]_vars

\* the playlists whose PlaylistConfig is enabled
EnabledPlaylists ==
    {playlist_config[i].playlist_id : i \in {i \in 1..Len(playlist_config) : playlist_config[i].enabled}}

\* C13: the sync loop fetches the remote playlist and inserts Items only for
\* PlaylistConfigs that are enabled: no request is in flight for a disabled
\* one, none of them is stored, and no Item is inserted for its items.
C13_OnlyEnabled ==
    /\ sync.pc = "fetch" => Head(sync.todo).enabled
    /\ DOMAIN playlists \subseteq EnabledPlaylists
    /\ Rows \subseteq UNION {{RemotePlaylist(p)[i] : i \in 1..Len(RemotePlaylist(p))} : p \in EnabledPlaylists}

\* the playlist get_playlist has built when the response it awaits is the last
Built ==
    IF fetch.pc = "first"
    THEN LET response == Response(remote[FetchedPlaylist], 1)
         IN [NewPlaylist(FetchedPlaylist, response) EXCEPT !.items = drain_to(<<>>, response)]
    ELSE [fetch.playlist EXCEPT
              !.items = drain_to(@, Response(remote[FetchedPlaylist], fetch.next_page))]

\* set_playlist has run in this step, to the end or until the process stopped
Replaces == fetch.pc \in {"first", "page"} /\ fetch'.ret \in {"full", "stopped"}

\* the stored playlist p is the playlist pl, row and items
StoredIs(tbl, p, pl) ==
    /\ p \in DOMAIN tbl
    /\ tbl[p].etag = pl.etag
    /\ tbl[p].total_results = pl.total_results
    /\ tbl[p].fetch_time = pl.fetch_time
    /\ tbl[p].items = pl.items

\* C14: set_playlist is atomic: whether the process stops during the
\* replacement or not, the stored playlist row and its item rows are afterwards
\* entirely the previous ones or entirely the new ones; and after a completed
\* replacement the stored items of the playlist are exactly the new items.
C14_ReplacementAtomic ==
    [][Replaces =>
          /\ playlists' = playlists \/ StoredIs(playlists', FetchedPlaylist, Built)
          /\ \A q \in DOMAIN playlists \ {FetchedPlaylist} :
                 q \in DOMAIN playlists' /\ playlists'[q] = playlists[q]
          /\ fetch'.ret = "full" => StoredIs(playlists', FetchedPlaylist, Built)]_vars

\* a rewrite of a stored playlist by other items was stopped: the previous
\* playlist is in place
C14_Witness ==
    /\ fetch.ret = "stopped"
    /\ HasPlaylist(playlists, FetchedPlaylist)
    /\ playlists[FetchedPlaylist].fetch_time < clock
    /\ Len(playlists[FetchedPlaylist].items) = 2

\* the answer to the request get_playlist awaits arrives
FirstArrives == fetch.pc = "first" /\ fetch' # fetch /\ fetch'.ret # "err"
PageArrives == fetch.pc = "page" /\ fetch' # fetch /\ fetch'.ret # "err"

\* the etag path was taken in this step: no further request, the stored
\* playlist unchanged but for fetch_time, the cached playlist returned
ShortcutTaken ==
    /\ fetch'.pc = "idle" /\ fetch'.ret = "etag" /\ fetch'.playlist = fetch.cached
    /\ playlists' = [playlists EXCEPT ![FetchedPlaylist].fetch_time = clock]
    /\ playlists'[FetchedPlaylist].items = playlists[FetchedPlaylist].items

\* the fetch goes on in this step: the next page is requested, or after the
\* last page set_playlist runs and, when it commits, the new playlist is
\* stored and returned
FetchGoesOn(response) ==
    IF response.next_page_token # 0
    THEN fetch'.pc = "page" /\ fetch'.next_page = response.next_page_token /\ playlists' = playlists
    ELSE /\ fetch'.pc = "idle" /\ fetch'.ret \in {"full", "stopped"}
         /\ fetch'.ret = "stopped" => playlists' = playlists
         /\ fetch'.ret = "full" =>
                StoredIs(playlists', FetchedPlaylist, Built) /\ fetch'.playlist = Built

\* C15 as stated: when the first page has the stored etag and its
\* total_results matches the stored count, no further page is requested, the
\* stored items stay, fetch_time is updated and the cached playlist returned;
\* otherwise all pages are fetched and the stored playlist is rewritten.
C15_AsStated ==
    [][FirstArrives =>
          LET response == Response(remote[FetchedPlaylist], 1)
          IN IF /\ fetch.has_cached
                /\ fetch.cached.etag = response.etag
                /\ fetch.cached.total_results = response.total_results
             THEN ShortcutTaken
             ELSE FetchGoesOn(response)]_vars

\* C15, amended: the etag path is taken when the first page has the stored
\* etag and its total_results equals both the stored total_results and the
\* number of stored items; otherwise every following page is requested and,
\* after the last one, set_playlist replaces the stored playlist; a request
\* that fails ends the call and leaves the stored playlist alone.
C15_EtagShortcut ==
    /\ [][FirstArrives =>
             LET response == Response(remote[FetchedPlaylist], 1)
             IN IF /\ fetch.has_cached
                   /\ fetch.cached.etag = response.etag
                   /\ fetch.cached.total_results = response.total_results
                   /\ Len(fetch.cached.items) = response.total_results
                THEN ShortcutTaken
                ELSE FetchGoesOn(response)]_vars
    /\ [][PageArrives =>
             FetchGoesOn(Response(remote[FetchedPlaylist], fetch.next_page))]_vars
    /\ [][fetch.pc \in {"first", "page"} /\ fetch'.ret = "err" =>
             fetch'.pc = "idle" /\ playlists' = playlists]_vars

\* the etag path was taken a minute after the fetch, for a playlist of more
\* than one page
C15_Witness ==
    /\ fetch.ret = "etag"
    /\ fetch.cached.fetch_time < clock
    /\ playlists[FetchedPlaylist].fetch_time = clock
    /\ Len(playlists[FetchedPlaylist].items) > MaxResults

\* C16: after a full fetch of a playlist of N items, over one page or several,
\* the stored PlaylistItems carry the positions 0..N-1 in the provider's order:
\* the i-th item drained has position i-1, so that positions are distinct.
C16_PositionsInOrder ==
    \A p \in DOMAIN playlists :
        \A i \in 1..Len(playlists[p].items) : playlists[p].items[i].position = i - 1

\* a wait_for_next_fetch returns in this step
Returns == log'.returns # log.returns

Place(order, c) ==
    IF \E i \in 1..Len(order) : order[i] = c
    THEN CHOOSE i \in 1..Len(order) : order[i] = c
    ELSE 0

\* C18: concurrent waiters emerge in FIFO order of their claim: if A first
\* calls try_claim_next before B does, A returns from wait_for_next_fetch
\* before B; stated here for the runs without back-off.
C18_Fifo ==
    events = 0 =>
        \A i, j \in 1..Len(log.arrivals) :
            i < j /\ Place(log.returns, log.arrivals[j]) # 0 =>
                /\ Place(log.returns, log.arrivals[i]) # 0
                /\ Place(log.returns, log.arrivals[i]) < Place(log.returns, log.arrivals[j])

\* the resolver sends a request in this step
Sends == callers[Resolver].pc # "sending" /\ callers'[Resolver].pc = "sending"

\* allow_next_fetch_in is called in this step
Allows == events' # events /\ log'.allowed_since /\ callers' = callers

RemovedFiles == {p \in DOMAIN files : files[p].ex /\ ~files'[p].ex}
RemovedDirs == dirs \ dirs'
C20_CleanupKeepsBases ==
    [][/\ \A p \in RemovedFiles : is_sub_file(p)
       /\ \A d \in RemovedDirs :
            /\ d \notin get_base_paths
            /\ is_sub_file(d)
            /\ Entries(files', dirs', d) = {}]_vars

\* C21: in the tagger's file step, when the source file is still there after
\* the step (the rename and the copy failed, or the delete after the copy
\* failed), the pass returns the error, the cache is as the file lookup left
\* it and Categorized is not written; Categorized is written only with the
\* file at the destination, no source left and the cache entry at the
\* destination, and only then does the relocation set the cache entry.
SourceLeft ==
    \E p \in DOMAIN files \ {DestPath(tag.res)} : files'[p] = Tagged(tag.cur, tag.res)
WritesCategorized == tag'.pc = "push_w" /\ tag'.st.fetch_status = "Categorized"
CacheAsLookedUp == \E f \in find_file(files, file_cache, tag.cur) : file_cache' = f.cache
C21_Relocation ==
    [][tag.pc = "files" /\ tag' # tag =>
        /\ SourceLeft => tag' = TagReturn /\ CacheAsLookedUp
        /\ WritesCategorized =>
            /\ files'[DestPath(tag.res)] = Tagged(tag.cur, tag.res)
            /\ ~SourceLeft
            /\ file_cache'[tag.cur] = DestPath(tag.res)
        /\ ~CacheAsLookedUp => WritesCategorized]_vars
\* the delete after a successful copy failed: the file is in both places
C21_Witness ==
    \E v \in Videos, m \in Metas :
        /\ files[TempPath(v)] = Tagged(v, m)
        /\ files[DestPath(m)] = Tagged(v, m)
        /\ tag.pc = "next"
        /\ file_cache[v] = NoPath
        /\ get_video_fetch_status(v) # "Categorized"

\* C22: the update the mirror sends for a playlist is the sequence of the
\* jelly_ids of the playlist's items in ascending position; when the push
\* succeeds the pending items of the playlist (not Synced, Categorized) that
\* have a jelly_id are Synced and every item it marks Synced is in the update
\* that was sent; when the push fails the items are left as they were.
PushReturns == mirror.pc = "push" /\ mirror' # mirror
PushSucceeds == server'.updates = server.updates + 1
MarkedOnlyIfSent ==
    LET p == Head(mirror.todo).playlist_id
    IN \A i \in 1..Len(playlists[p].items) :
        /\ playlists[p].items[i].jelly_status # "Synced"
        /\ playlists'[p].items[i].jelly_status = "Synced"
        => \E k \in 1..Len(mirror.ids) :
                mirror.ids[k] = status[playlists[p].items[i].video_id].jelly_id
C22_PushedAndSynced ==
    [][/\ mirror'.pc = "push" /\ mirror' # mirror =>
            mirror'.ids \in get_jellyfin_playlist_item_ids(playlists', status',
                                                           Head(mirror'.todo).playlist_id)
       /\ PushReturns /\ HasPlaylist(playlists, Head(mirror.todo).playlist_id) =>
            LET p == Head(mirror.todo).playlist_id
                pending == {u \in get_jellyfin_unsynced(playlist_config, playlists, status) :
                               u.playlist_id = p}
            IN IF PushSucceeds
               THEN /\ \A u \in {u \in pending : u.jelly_id # None} :
                        \A i \in 1..Len(playlists'[p].items) :
                            playlists'[p].items[i].video_id = u.video_id
                                => playlists'[p].items[i].jelly_status = "Synced"
                    /\ MarkedOnlyIfSent
               ELSE playlists'[p] = playlists[p]]_vars

\* C23: when the tagger returns from an item, the items of its pass that are
\* left stay queued, and no error ends a loop: the task that runs the loops
\* does not panic.
C23_LoopsGoOn ==
    [][/\ tag'.pc = "next" => tag'.queue = tag.queue
       /\ sync'.pc # "panic"]_vars

\* C24: when the tagger's pass over an item ends and the item is not
\* Categorized, the item's row holds a last_error and the newest message on
\* the bus is the item's, with that last_error.
PassOverItemEnds == tag.pc \notin {"idle", "next"} /\ tag'.pc = "next"
C24_FailureReported ==
    [][PassOverItemEnds /\ get_video_fetch_status(tag.cur)' # "Categorized" =>
        /\ status'[tag.cur].last_error # None
        /\ notes'.video_id = tag.cur
        /\ notes'.last_error = status'[tag.cur].last_error]_vars

\* C25: when the delete command fails to remove the item's file, the item's
\* row is as before the command, the cached extractor metadata the item had
\* when the command arrived is still there, and no tagger trigger and no
\* notification is sent.
DeleteFails == op.pc = "del_file" /\ op'.pc = "idle"
C25_FailedDeleteKeepsStore ==
    [][DeleteFails =>
        /\ status'[op.v] = op.st
        /\ op.had_ytdata => op.v \in ytdata'
        /\ trig' = trig
        /\ notes' = notes]_vars

\* C26: sign_in issues a token if and only if the user exists and
\* verify_password succeeds for the password of the request against the stored
\* hash; an unknown user and a password that does not verify are answered
\* with Unauthorized and no token
SignInAnswers == reply' # reply
Verifies(data) == data.username \in DOMAIN users /\ verify_password(users[data.username], data.password)
C26_TokenIffVerified ==
    [][SignInAnswers =>
        /\ reply'.token # <<>> <=> Verifies(reply')
        /\ ~Verifies(reply') => reply'.status_code = UNAUTHORIZED]_vars

\* C27: a subscriber of the bus that fell behind by more than the buffer
\* misses the overwritten messages only: it stays subscribed, and receives
\* the messages that are sent after it caught up
FallsBehind == socket.pc = "recv" /\ Lagged(bus, socket.next)
C27_LaggingStaysSubscribed ==
    [][FallsBehind /\ socket' # socket =>
        /\ socket'.pc # "closed"
        /\ socket'.next = Len(bus) - BusBuffer]_vars

CommentOp(name) == media'.did.op = name /\ media' # media
OthersKept ==
    \A o \in Keys : FieldName(media.format, o) # FieldName(media.format, media'.did.key) =>
        ValuesOf(media.format, media'.tag, o) = ValuesOf(media.format, media.tag, o)
C29_CommentsUniform ==
    [][LET f == media.format
           k == media'.did.key
           v == media'.did.value
           Differs(x) == x # v
       IN /\ CommentOp("set") => ValuesOf(f, media'.tag, k) = <<v>>
          /\ CommentOp("add") => ValuesOf(f, media'.tag, k) = Append(ValuesOf(f, media.tag, k), v)
          /\ CommentOp("remove") /\ v = NoValue =>
                ValuesOf(f, media'.tag, k) = <<>> /\ OthersKept
          /\ CommentOp("remove") /\ v # NoValue =>
                ValuesOf(f, media'.tag, k) = SelectSeq(ValuesOf(f, media.tag, k), Differs)]_vars

\* C30: a loop starts an iteration of its body only after a tick or a trigger
\* arrived and only after its previous iteration finished: two iterations
\* never overlap, and a tick or a trigger that arrives during an iteration
\* does not cancel it
IterationStarts == runner'.started # runner.started
Arrives == runner'.due > runner.due \/ runner'.inbox > runner.inbox
C30_OneIterationAtATime ==
    [][/\ IterationStarts =>
            /\ runner.due > 0 \/ runner.inbox > 0
            /\ runner.due + runner.inbox = runner'.due + runner'.inbox + 1
            /\ runner.finished = runner.started
            /\ runner'.started = runner.started + 1
       /\ runner'.started - runner'.finished \in {0, 1}
       /\ runner.pc = "body" /\ Arrives => runner'.pc = "body" /\ runner'.step = runner.step
       /\ runner.pc = "body" /\ runner.step < BodyAwaits =>
            runner'.pc = "body" /\ runner'.step >= runner.step /\ runner'.finished = runner.finished
      ]_vars

\* the second iteration is under way while a tick and a trigger have arrived
C30_Witness ==
    /\ runner.pc = "body" /\ runner.step > 0
    /\ runner.started = 2 /\ runner.finished = 1
    /\ runner.due > 0 /\ runner.inbox > 0

\* C31: an item that the playlist sync inserted as NotFetched is eventually
\* given a pass of the tagger, which leaves it Fetched or FetchError, whether
\* its trigger was sent to an idle tagger, during an iteration, or with others
PassOwed(v) == v \in Rows /\ status[v].fetch_status = "NotFetched"
PassGiven(v) == v \in Rows /\ status[v].fetch_status \in {"Fetched", "FetchError"}
C31_InsertedGetsPass == \A v \in Videos : PassOwed(v) ~> PassGiven(v)

\* C32: a migration step applies its schema mutations and advances the stored
\* version in one transaction: whenever the process has ended during a
\* migration, the file holds a version together with exactly the schema of
\* that version, and no start of the program fails on it
C32_StepAtomic ==
    /\ db.pc = "closed" /\ db.version # <<>> => db.schema = Columns(db.version[1])
    /\ db.pc # "panic"

\* the call tries its searches: no recording id, no search that names Nightcore
TriesSearches(b) == b.dlp # <<>> /\ b.dlp[1].trackid = <<>> /\ nc_match(b.search) = <<>>
\* the search that the call is at has a recording: in the cache, or in the body that arrived
YieldsRecording ==
    \/ brainz.pc = "store" /\ brainz.text = <<"recording">>
    \/ brainz.pc = "lookup" /\ \E c \in Cached(brainz, UrlAt(brainz)) : c.data = "recording"
RecordingOf(url) == [ok |-> TRUE, value |-> BrainzMetadata(<<url>>, <<"rec">>, <<"by">>, <<>>)]

\* C33: without a recording id and without the short-circuit, analyze_brainz
\* asks for its candidate searches in their order, returns the recording of
\* the first search that yields one and asks for no later search, and returns
\* EmptyResult exactly when every search has failed or there is none
C33_FirstSuccessWins ==
    /\ [](TriesSearches(brainz) =>
            /\ \A i \in 1..Len(brainz.asked) : i <= Len(brainz.search) /\ brainz.asked[i] = QueryOf(brainz.search[i])
            /\ brainz.pc = "returned" /\ ~brainz.ret[1].ok =>
                    brainz.ret[1].value = "EmptyResult" /\ Len(brainz.asked) = Len(brainz.search)
            /\ brainz.pc = "returned" /\ brainz.ret[1].ok =>
                    brainz.asked # <<>> /\ brainz.ret[1] = RecordingOf(brainz.asked[Len(brainz.asked)]))
    /\ [][TriesSearches(brainz) /\ brainz.pc \in {"lookup", "send", "store"} =>
            /\ YieldsRecording => brainz'.pc = "returned" /\ brainz'.ret = <<RecordingOf(UrlAt(brainz))>>
            /\ brainz'.pc = "returned" /\ ~brainz'.ret[1].ok => ~YieldsRecording /\ brainz.at = Len(brainz.search)
            /\ brainz'.pc = "lookup" => ~YieldsRecording /\ brainz'.at = brainz.at + 1]_vars
C33_Witness ==
    /\ TriesSearches(brainz) /\ brainz.pc = "returned" /\ brainz.ret[1].ok
    /\ Len(brainz.asked) = 2 /\ Len(brainz.search) = 4

\* C34: without a recording id, when the artists of a candidate search,
\* upper-cased, contain NIGHTCORE, analyze_brainz returns that candidate's
\* title with the artist Nightcore, the album Nightcore and no recording id,
\* and the call sends no request, does not wait on the limiter and neither
\* reads nor writes the cache of responses
NamesNightcore(b) ==
    b.dlp # <<>> /\ b.dlp[1].trackid = <<>> /\ \E i \in 1..Len(b.search) : IsNightcore(b.search[i])
C34_NightcoreShortCircuit ==
    NamesNightcore(brainz) =>
        /\ brainz.pc = "returned" /\ brainz.ret[1].ok
        /\ \E i \in 1..Len(brainz.search) :
                /\ IsNightcore(brainz.search[i])
                /\ brainz.ret[1].value = BrainzMetadata(<<>>, brainz.search[i].title[1], <<"Nightcore">>, <<"Nightcore">>)
        /\ brainz.sends = 0 /\ brainz.waits = 0 /\ brainz.gets = 0 /\ brainz.sets = 0 /\ brainz.asked = <<>>
C34_Witness ==
    /\ NamesNightcore(brainz) /\ brainz.pc = "returned" /\ brainz.cache # {}
    /\ brainz.dlp[1].title = <<"t", Dash, "(", "nightcore", ")">>

\* the two sides of a title at its first separator
FirstDash(title) == CHOOSE i \in 1..Len(title) : title[i] = Dash /\ \A k \in 1..(i - 1) : title[k] # Dash
LeftOf(title) == SubSeq(title, 1, FirstDash(title) - 1)
RightOf(title) == SubSeq(title, FirstDash(title) + 1, Len(title))

\* C35: for a query without artist and album whose title contains " - ", the
\* title is split once: the first search has the right side as title and the
\* artists of the left side, the next search the left side as title and the
\* artists of the right side, and nothing after the separator is dropped
C35_SplitOnce ==
    brainz.dlp # <<>> /\ brainz.dlp[1].trackid = <<>> /\ brainz.dlp[1].artist = <<>> /\ brainz.dlp[1].album = <<>>
        /\ contains(brainz.dlp[1].title, Dash) =>
            brainz.search = <<RecordingSearch(Exact(RightOf(brainz.dlp[1].title)),
                                              Exacts(split_artists(LeftOf(brainz.dlp[1].title))), QTerm_None),
                              RecordingSearch(Exact(LeftOf(brainz.dlp[1].title)),
                                              Exacts(split_artists(RightOf(brainz.dlp[1].title))), QTerm_None)>>

\* C36: without stored credentials the polling of get_auth ends in success
\* with the credentials persisted, in AuthRejected or in AuthTimeExceeded;
\* credentials are persisted only on success, and no poll is sent once
\* expires_in has elapsed
C36_PollingOutcome ==
    /\ oauth.pc = "returned" /\ oauth.polls > 0 => oauth.ret \in {"Ok", "AuthRejected", "AuthTimeExceeded"}
    /\ oauth.stored # <<>> <=> oauth.ret = "Ok"
    /\ oauth.polls > 0 => oauth.polled_at < oauth.expires_in

\* C37: a write of the tagger never erases an override_query, an
\* override_result or a jelly_id that is stored in the row: what another
\* task has written since the tagger read the row is still there after the
\* tagger's write
C37_NoLostOverride ==
    [][ \A v \in Rows :
            tag' # tag =>
                /\ status'[v].override_query = status[v].override_query
                /\ status'[v].override_result = status[v].override_result
                /\ status'[v].jelly_id = status[v].jelly_id
      ]_vars

\* the videos that playlist p holds as Synced items
SyncedIn(tbl, p) ==
    IF HasPlaylist(tbl, p)
    THEN {tbl[p].items[i].video_id : i \in {i \in 1..Len(tbl[p].items) : tbl[p].items[i].jelly_status = "Synced"}}
    ELSE {}

\* C38: an item of a playlist is marked Synced only if the jelly_id of its
\* video is in the list of ids of the update that the media server has
\* accepted for the playlist, also when the playlist sync rewrites the
\* playlist while the update is under way
C38_SyncedWasSent ==
    [][ \A p \in PlaylistIds : \A v \in SyncedIn(playlists', p) \ SyncedIn(playlists, p) :
            /\ server'.updates = server.updates + 1
            /\ \E k \in 1..Len(server'.held) : server'.held[k] = status'[v].jelly_id
      ]_vars

\* what the subscriber knows of the rows: the list it was sent at its start,
\* with the messages it was sent since, in their order
RECURSIVE Overlaid(_, _)
Overlaid(list, msgs) ==
    IF msgs = <<>> THEN list
    ELSE Overlaid([v \in DOMAIN list \cup {Head(msgs).video_id} |->
                        IF v = Head(msgs).video_id THEN Head(msgs) ELSE list[v]], Tail(msgs))
\* the subscriber has been sent all that the bus holds and no writer is
\* between its write and its notification
CaughtUp == socket.pc = "recv" /\ socket.next = Len(bus) /\ op.pc = "idle"

\* C39: a subscriber that has not lagged misses no write of a row: when it
\* has been sent all the messages of the bus and no writer is under way,
\* every stored row is in the initial list or in a later message as it is
\* stored
C39_NoUpdateMissed ==
    CaughtUp =>
        \A v \in Rows :
            LET known == Overlaid(socket.init_list[1], socket.sent)
            IN v \in DOMAIN known /\ known[v] = Message(status[v])

\* the states in which retry_fetch applies, and those in which the overrides apply
RetryStates == {"NotFetched", "FetchError", "Disabled"}
OverrideStates == {"Fetched", "BrainzError", "Categorized"}
\* the operator's command cmd stores its row in this step
CommandWrites(cmd) == op.pc = "w" /\ op.cmd = cmd /\ op' # op
\* a command has arrived in this step and was not applied
CommandRefused == op.pc = "idle" /\ events' = events + 1 /\ op' = OpIdle

\* C40: retry_fetch changes a row only when its state is NotFetched,
\* FetchError or Disabled, and stores NotFetched; the query and result
\* overrides change a row only when its state is Fetched, BrainzError or
\* Categorized, and store the override with the state Fetched; a command that
\* is refused or names no row changes no row, creates none, and sends neither
\* a trigger nor a notification; a command that is applied sends both
C40_CommandGuards ==
    [][ /\ CommandWrites("retry") =>
            /\ status[op.v].fetch_status \in RetryStates
            /\ status'[op.v].fetch_status = "NotFetched"
        /\ CommandWrites("query") =>
            /\ status[op.v].fetch_status \in OverrideStates
            /\ status'[op.v].fetch_status = "Fetched"
            /\ status'[op.v].override_query = cleaned_query(op.arg)
        /\ CommandWrites("result") =>
            /\ status[op.v].fetch_status \in OverrideStates
            /\ status'[op.v].fetch_status = "Fetched"
            /\ status'[op.v].override_result = cleaned_result(op.arg)
        /\ CommandRefused => status' = status /\ trig' = trig /\ notes' = notes
        /\ op.pc = "n" /\ op' # op => trig' = trigger_tagger(trig) /\ notes' = Message(op.st)
        /\ op.pc = "idle" /\ op'.pc = "w" =>
            /\ op'.v \in Rows
            /\ op'.cmd = "retry" => status[op'.v].fetch_status \in RetryStates
            /\ op'.cmd \in {"query", "result"} => status[op'.v].fetch_status \in OverrideStates
      ]_vars

====
